---- MODULE Spec2Model ----
(***************************************************************************)
(* Process orchestrator of vuicode-app/backend/tools/run_all_tests.py:     *)
(* main() starts the declared services, healthchecks them, runs the        *)
(* declared tests one after the other (install, attempts with timeout and  *)
(* retries), stops the services and emits the report.                      *)
(*                                                                         *)
(* One behaviour is one run of main() on one loaded plan.  The lengths of  *)
(* the plan's services and tests lists are fixed in Init; the fields of a  *)
(* service or test are drawn when the for-loop of the code reaches that    *)
(* element, which is the first time the code reads them.  Services and     *)
(* tests are named by their position in the declared list.                 *)
(*                                                                         *)
(* The other specifications model vuicode-app/backend/tools/               *)
(* generate_content.py: SpecRepair is one call of repair_loop_if_needed,   *)
(* SpecCompose one call of _expand_project_paths, SpecResolve one call of  *)
(* load_or_autogen_template, SpecGen one run of the generator's main(),    *)
(* SpecInfer one call of infer_failure_target, SpecMatch one call of       *)
(* best_match_by_topic, SpecMerge one call of deep_merge, SpecLoad one     *)
(* call of load_and_compose_test_config, SpecHydrate one call of           *)
(* hydrate_files_from_stack_dir.                                           *)
(* Each specification leaves the variables of the others at their idle     *)
(* values.                                                                 *)
(***************************************************************************)
EXTENDS Integers, Sequences, FiniteSets, TLC

\* ---------------------------------------------------------------- bounds
MaxServices == 2        \* len(cfg["services"]) <= MaxServices
MaxTests == 2           \* len(cfg["tests"]) <= MaxTests
MaxInstall == 2         \* len(tcfg["install"]) <= MaxInstall
MaxRetries == 2         \* tcfg["retries"] <= MaxRetries
MaxTimeout == 2         \* healthcheck timeout_sec, in units of one poll
MaxResults == 2         \* len(report["results"]) of a report handed to the repair loop

\* ------------------------------------------------------ program constants
TIMEOUT_RC == 124       \* rc of an attempt killed on TimeoutExpired
NOTFOUND_RC == 127      \* rc of an attempt whose Popen raised FileNotFoundError
MAX_REPAIR_TRIES == 2   \* generate_content.py line 41
ERROR_RC == 1           \* rc of an attempt whose Popen raised another Exception

\* Exit codes a child process returns by itself.
ExitCodes == {0, 1}

\* A command field of the plan: a list[str], or anything else.
CmdKinds == {"list", "notlist"}

\* svc of `for svc in services_cfg`: start, healthcheck.url (declared or not),
\* healthcheck.expect (declared or not), healthcheck.timeout_sec.
ServiceCfgs ==
    [start: CmdKinds, url: BOOLEAN, expect: BOOLEAN, timeout_sec: 0..MaxTimeout]

\* tcfg["type"], lower-cased, "raw" when absent.
TestTypes == {"junit", "playwright", "raw"}

\* What an adapter finds in the JUnit XML file or in the stdout of the attempt: a
\* well-formed report without or with failures/errors, or nothing it can parse.
ParseOutcomes == {"clean", "failures", "parse-error"}

\* tcfg of `for tcfg in tests_cfg`: cmd, len(install), timeout_sec, retries.  The
\* type and junit_xml of the test are drawn where the adapter is chosen.
TestCfgs ==
    [cmd: CmdKinds, install: 0..MaxInstall, timeout_sec: {0, 1}, retries: 0..MaxRetries]

\* What the process of a service can have done when the grace sleep ends: it
\* runs and wrote nothing, it runs and wrote to its pipes, it has exited.
ProcDid == {"silent", "output", "exited"}

\* --max-service-wait values (0 is the argparse default).
MaxServiceWaitArgs == {0, MaxTimeout}

NoSvc == [start |-> "list", url |-> FALSE, expect |-> FALSE, timeout_sec |-> 0]
NoTest == [cmd |-> "list", install |-> 0, timeout_sec |-> 0, retries |-> 0]
NoReport == [emitted |-> FALSE]

\* No attempt of the current test has ended.
NoAttempts == [n |-> 0, rc |-> 0]

\* The report path before main wrote to it.
Untouched == [configured |-> FALSE, written |-> FALSE, exists |-> FALSE, text |-> <<>>]

\* A report left at the report path by an earlier run.
StaleReport ==
    [timestamp |-> "earlier", project |-> "project", overall_passed |-> TRUE,
     services |-> <<>>, results |-> <<>>]

\* The locals of start_services (svc, elapsed, max_wait_override) take their
\* initial value again when the loop iteration or the function that owns them ends.
VARIABLES
    pc,              \* position of main()
    cfg,             \* loaded plan: the lengths of cfg["services"] and cfg["tests"]
    max_wait_override, \* start_services: its parameter, args.max_service_wait
    svc,             \* start_services: the service being started
    elapsed,         \* wait_http: time.time() - start, in poll units
    procs,           \* start_services/main: procs, <<[name, alive]>>; alive: launched
                     \* and not yet stopped (a process that ended by itself is seen
                     \* by the orchestrator only at poll() in stop_services)
    svc_meta,        \* start_services: svc_meta, <<[name, healthy]>>
    ok_services,     \* main: ok_services
    tcfg,            \* run_one_test: the test being run
    icmd,            \* run_one_test: index of the install command being run
    attempt,         \* run_one_test: attempt
    children,        \* install/test child processes that are alive
    results,         \* main: results
    all_ok,          \* main: all_ok
    overall_passed,  \* main: overall_passed
    exc,             \* the exception propagating out of main, or "none"
    report,          \* the report main emitted, or NoReport
    report_file,     \* the report path as this run leaves it (what it held before
                     \* the run is an input of MainReport, which first touches it)
    exit_code,       \* {} while main runs, then {the exit status of the process}
    stops,           \* history: one entry per stop_services call
    installs,        \* history: install commands of the current test that ran, <<[n, rc]>>
    attempts,        \* history: how many attempts of the current test ended, and
                     \* the rc of the latest
    last_how,        \* history: how the last attempt ended
    last_parse,      \* history: what the adapter found for the returned result
    proc_did         \* history: what proc did during the grace sleep of its
                     \* service, kept until start_services takes its next step

orchVars == <<pc, cfg, max_wait_override, svc, elapsed, procs, svc_meta, ok_services,
              tcfg, icmd, attempt, children, results, all_ok, overall_passed, exc,
              report, report_file, exit_code, stops, installs, attempts, last_how,
              last_parse, proc_did>>

\* State of one call of repair_loop_if_needed (generate_content.py).
VARIABLES
    rl_pc,           \* position in repair_loop_if_needed ("idle": not called)
    allowed_rel,     \* the editable files passed by the caller
    rl_ok,           \* ok of `ok, report = run_tests_with_config(slug)`
    rl_report,       \* report of the same, as far as the loop has read it
    tries,           \* tries
    target,          \* target = infer_failure_target(report)
    rl_ret,          \* the value returned, once rl_pc = "returned"
    rl_file,         \* the report at the report path: "absent", or its verdict
    llm,             \* history: the answer of the fix generator in the latest cycle
    written,         \* history: the files the latest cycle wrote
    touched,         \* history: the files any cycle wrote
    events           \* history: the runs and fix cycles of this call, in order

repairVars == <<rl_pc, allowed_rel, rl_ok, rl_report, tries, target, rl_ret, rl_file, llm,
                written, touched, events>>

\* State of one call of _expand_project_paths (generate_content.py).
VARIABLES
    cp_pc,           \* "idle" (not called), "expand", "returned" or "raised", and
                     \* "returned_again" or "raised_again" after a second call
    cp_in,           \* merged: the plan passed in
    cp_out,          \* the plan returned
    cp_again         \* the plan returned by a second call, on cp_out

composeVars == <<cp_pc, cp_in, cp_out, cp_again>>

\* State of one call of load_or_autogen_template (generate_content.py).
VARIABLES
    rs_pc,           \* "idle" (not called), "choose", "autogen", "save", "returned", "raised"
    rs_name,         \* name: the template name passed in, NoName when none
    rs_topic,        \* topic: the words of the lower-cased topic
    storage,         \* the template directory: folder name -> entry file
    storage0,        \* history: the template directory when the call began
    rs_chosen,       \* chosen
    rs_tpl,          \* tpl: the autogenerated template before it is saved
    rs_ret,          \* the template returned, once rs_pc = "returned"
    rs_how           \* history: the branch that produced the outcome

resolveVars == <<rs_pc, rs_name, rs_topic, storage, storage0, rs_chosen, rs_tpl, rs_ret,
                 rs_how>>

\* State of one run of main() of generate_content.py.
VARIABLES
    gm_pc,           \* position in main ("idle": not run)
    gm_args,         \* args: mode, dry_run, skip_repair
    gm_ok,           \* tests_ok, then tests_ok2
    gm_calls         \* history: the functions main called, in order

genVars == <<gm_pc, gm_args, gm_ok, gm_calls>>

\* State of one call of infer_failure_target (generate_content.py).
VARIABLES
    if_pc,           \* "idle" (not called), "infer" or "returned"
    if_report,       \* report: the report passed in
    if_target        \* the target returned

inferVars == <<if_pc, if_report, if_target>>

\* State of one call of best_match_by_topic (generate_content.py).
VARIABLES
    bm_pc,           \* "idle" (not called), "loop" or "returned"
    bm_reg,          \* reg, in the order of reg.items(): <<[name, detect]>>
    bm_topic,        \* topic
    bm_i,            \* how many items of reg the loop has taken
    bm_best,         \* best
    bm_score         \* score

matchVars == <<bm_pc, bm_reg, bm_topic, bm_i, bm_best, bm_score>>

\* State of one call of deep_merge (generate_content.py).
VARIABLES
    dm_pc,           \* "idle" (not called), "called" or "returned"
    dm_a,            \* a
    dm_b,            \* b
    dm_out           \* the value returned

mergeVars == <<dm_a, dm_b, dm_pc, dm_out>>

\* State of one call of load_and_compose_test_config (generate_content.py).
VARIABLES
    ld_pc,           \* "idle" (not called), the stage to run next ("extend", "vars",
                     \* "overrides", "resolve", "expand", "defaults"), "returned"
                     \* or "raised"
    ld_exc,          \* the exception raised, or "none"
    ld_extends,      \* what the files of proj_cfg["extends"] load to, in listed order
    ld_proj,         \* proj_cfg
    ld_env,          \* os.environ
    ld_i,            \* how many templates of extends are merged
    ld_merged,       \* merged
    ld_vars,         \* vars_combined
    ld_extended,     \* history: merged after the extends loop
    ld_unresolved    \* history: merged after the overrides

loadVars == <<ld_pc, ld_exc, ld_extends, ld_proj, ld_env, ld_i, ld_merged, ld_vars,
              ld_extended, ld_unresolved>>

\* State of one call of hydrate_files_from_stack_dir (generate_content.py).
VARIABLES
    hy_pc,           \* "idle" (not called), "called", "scan" (in the rglob loops)
                     \* or "returned"
    hy_tpl,          \* tpl at the call: [files, editable_files]
    hy_disk,         \* the directory of the template: [exists, entries]
    hy_i,            \* how many entries of the directory are visited
    hy_discovered,   \* discovered
    hy_out           \* tpl at the return: [files, editable_files]

hydrateVars == <<hy_pc, hy_tpl, hy_disk, hy_i, hy_discovered, hy_out>>

\* The calls of single functions of generate_content.py.
callVars == <<matchVars, mergeVars, loadVars, hydrateVars>>

\* What a call of best_match_by_topic leaves alone.
nonMatchVars ==
    <<orchVars, repairVars, composeVars, resolveVars, genVars, inferVars, mergeVars,
      loadVars, hydrateVars>>

\* What a call of deep_merge leaves alone.
nonMergeVars ==
    <<orchVars, repairVars, composeVars, resolveVars, genVars, inferVars, matchVars,
      loadVars, hydrateVars>>

\* What a call of load_and_compose_test_config leaves alone.
nonLoadVars ==
    <<orchVars, repairVars, composeVars, resolveVars, genVars, inferVars, matchVars,
      mergeVars, hydrateVars>>

\* What a call of hydrate_files_from_stack_dir leaves alone.
nonHydrateVars ==
    <<orchVars, repairVars, composeVars, resolveVars, genVars, inferVars, matchVars,
      mergeVars, loadVars>>

\* What an orchestrator run leaves alone.
sideVars == <<repairVars, composeVars, resolveVars, genVars, inferVars, callVars>>

\* What a call of the repair loop leaves alone.
nonRepairVars == <<orchVars, composeVars, resolveVars, genVars, inferVars, callVars>>

\* What a call of _expand_project_paths leaves alone.
nonComposeVars == <<orchVars, repairVars, resolveVars, genVars, inferVars, callVars>>

\* What a call of load_or_autogen_template leaves alone.
nonResolveVars == <<orchVars, repairVars, composeVars, genVars, inferVars, callVars>>

\* What a run of the generator's main leaves alone.
nonGenVars == <<orchVars, repairVars, composeVars, resolveVars, inferVars, callVars>>

\* What a call of infer_failure_target leaves alone.
nonInferVars == <<orchVars, repairVars, composeVars, resolveVars, genVars, callVars>>

vars == <<orchVars, repairVars, composeVars, resolveVars, genVars, inferVars, callVars>>

svcVars == <<max_wait_override, svc, elapsed, svc_meta, ok_services, proc_did>>
testVars == <<tcfg, icmd, attempt, children, results, all_ok, installs, attempts, last_how,
              last_parse>>

\* ------------------------------------------------------------- helpers
RECURSIVE Reverse(_)
Reverse(s) == IF s = <<>> THEN <<>> ELSE Append(Reverse(Tail(s)), Head(s))

RECURSIVE SelectAlive(_, _)
\* the names of s, in order, that are in the set keep
SelectAlive(s, keep) ==
    IF s = <<>> THEN <<>>
    ELSE IF Head(s) \in keep THEN <<Head(s)>> \o SelectAlive(Tail(s), keep)
    ELSE SelectAlive(Tail(s), keep)

Names(ps) == [i \in 1..Len(ps) |-> ps[i].name]
AliveNames(ps) == {ps[i].name : i \in {j \in 1..Len(ps) : ps[j].alive}}

\* to_cmd_list: returns x when it is a list[str], raises ValueError otherwise.
to_cmd_list_raises(x) == x # "list"

\* start_services: the effective healthcheck timeout.
EffectiveTimeout(timeout_sec, override) ==
    IF override > 0 /\ override > timeout_sec THEN override ELSE timeout_sec

\* Variant: stop_services walks procs in start order.
StopOrderForward(ps) == Names(ps)

\* stop_services: `for name, p in reversed(procs)`.
StopOrder(ps) == Reverse(Names(ps))

\* stop_services(procs): terminate every process in StopOrder, sleep, then kill in
\* StopOrder those whose poll() is still None.  survivors: the processes still
\* alive after the sleep (a process may have ended by itself at any time before,
\* or on SIGTERM).  Returns the processes and the calls made.
stop_services(ps, survivors) ==
    [procs |-> [i \in 1..Len(ps) |-> [ps[i] EXCEPT !.alive = FALSE]],
     calls |-> [terminate |-> StopOrder(ps),
                kill |-> SelectAlive(StopOrder(ps), survivors)]]

\* Variant: start_services goes on after an unhealthy service.
UnhealthyIgnored(healthy) == FALSE

\* start_services line 161: `if not healthy`.
Unhealthy(healthy) == ~healthy

\* Variant: a startup that started no service is not a success.
StartupOkNeedsService(meta) == meta # <<>>

\* start_services line 166: `return svc_meta, procs, True` once the loop over
\* the declared services is over.
StartupOk(meta) == TRUE

\* Variant: after the grace sleep the service is healthy if its process runs.
GraceHealthyIfRunning(did) == did # "exited"

\* start_services lines 151-154: `time.sleep(1.0); healthy = True`.
GraceHealthy(did) == TRUE

\* Variant: a result whose summary counts failures, or that carries an error, fails.
AllOkBySummary(ok, res) ==
    ok /\ res.returncode = 0 /\ res.summary # "failures" /\ res.error = "none"

\* Variant: all_ok is overwritten by the verdict of the latest result.
AllOkLatestOnly(ok, res) == res.returncode = 0

\* main lines 377-378: all_ok after one more result.
AllOk(ok, res) == ok /\ res.returncode = 0

\* Variant: the exit code of an install command is not looked at.
InstallFailedIgnored(rc) == FALSE

\* run_one_test line 271: `if pr.returncode != 0`.
InstallFailed(rc) == rc # 0

\* Variant: timeout_sec = 0 arms a timeout too.
TimeoutArmedAtZero(timeout_sec) == timeout_sec >= 0

\* run_one_test line 291: a timeout is armed only when timeout_sec > 0.
TimeoutArmed(timeout_sec) == timeout_sec > 0

\* Variant: the retry budget is compared off by one.
ReturnsResultOneEarly(rc, att, retries) == rc = 0 \/ att >= retries

\* run_one_test lines 326-329: the attempt loop returns its result.
ReturnsResult(rc, att, retries) == rc = 0 \/ att > retries

\* Variant: the timed-out process is not killed.
KillChildSkipped(ch, c) == ch

\* run_one_test lines 293-294: proc.kill(); proc.communicate().
KillChild(ch, c) == ch \ {c}

\* Variant: the loop over the tests ends at the first failed result.
MoreTestsUntilFailure(rs, n) ==
    Len(rs) < n /\ \A i \in 1..Len(rs) : rs[i].returncode = 0

\* main line 374: `for tcfg in tests_cfg` has another test to run.
MoreTests(rs, n) == Len(rs) < n

\* Variant: an XML file that cannot be parsed is reported as a clean summary.
parse_junit_silent(parsed, rc) ==
    [returncode |-> rc, error |-> "none",
     summary |-> IF parsed = "parse-error" THEN "clean" ELSE parsed]

\* parse_junit: the result built from the XML file at junit_xml.
parse_junit(parsed, rc) ==
    IF parsed = "parse-error"
    THEN [returncode |-> rc, error |-> "parse-error", summary |-> "none"]
    ELSE [returncode |-> rc, error |-> "none", summary |-> parsed]

\* parse_playwright: the result built from the JSON on stdout.
parse_playwright(parsed, rc) ==
    IF parsed = "parse-error"
    THEN [returncode |-> rc, error |-> "parse-error", summary |-> "none"]
    ELSE [returncode |-> rc, error |-> "none", summary |-> parsed]

\* parse_raw: the tails of stdout and stderr, nothing is parsed.
parse_raw(rc) == [returncode |-> rc, error |-> "none", summary |-> "tails"]

\* run_one_test lines 308-317: the adapter chosen by type and junit_xml.
Adapter(ttype, junit_xml) ==
    IF ttype = "junit" THEN (IF junit_xml THEN "parse_junit" ELSE "parse_raw")
    ELSE IF ttype = "playwright" THEN "parse_playwright"
    ELSE "parse_raw"

\* run_one_test lines 308-317: the result of the attempt.
ParseByAdapter(ttype, junit_xml, parsed, rc) ==
    CASE Adapter(ttype, junit_xml) = "parse_junit" -> parse_junit(parsed, rc)
      [] Adapter(ttype, junit_xml) = "parse_playwright" -> parse_playwright(parsed, rc)
      [] OTHER -> parse_raw(rc)

\* What is at junit_xml when the final attempt ended: the file this attempt
\* wrote, a file an earlier attempt or an earlier run left there (nothing
\* removes it, line 311 reads whatever the path holds), or nothing.
JunitFiles == {"written", "left", "absent"}

\* ET.parse on the path: a missing file raises like a malformed one.
ReadJunit(file, parsed) == IF file = "absent" THEN "parse-error" ELSE parsed

\* What the adapter was given to parse: the file at junit_xml for parse_junit,
\* the stdout of the attempt for the others.
Given(ttype, junit_xml, file, parsed) ==
    IF Adapter(ttype, junit_xml) = "parse_junit" THEN ReadJunit(file, parsed) ELSE parsed

\* What the chosen adapter met in what it was given to parse: a summary taken
\* from a file the attempt did not write ("stale"), failures, a parse error,
\* or none of these (parse_raw looks for none).
Found(ttype, junit_xml, file, parsed) ==
    IF Adapter(ttype, junit_xml) = "parse_raw" THEN "none"
    ELSE IF Adapter(ttype, junit_xml) = "parse_junit" /\ file = "left"
            /\ ReadJunit(file, parsed) # "parse-error" THEN "stale"
    ELSE IF Given(ttype, junit_xml, file, parsed) = "clean" THEN "none"
    ELSE Given(ttype, junit_xml, file, parsed)

\* The results run_one_test can build for an attempt that ended with rc, over
\* every type, junit_xml, file at junit_xml and content to parse, each with
\* what the adapter met.
Parses(rc) ==
    {[result |-> ParseByAdapter(ttype, junit_xml, Given(ttype, junit_xml, file, parsed), rc),
      found |-> Found(ttype, junit_xml, file, parsed)] :
        ttype \in TestTypes, junit_xml \in BOOLEAN, file \in JunitFiles,
        parsed \in ParseOutcomes}

\* Variant: the process exits 0 whatever the verdict.
ExitCodeAlwaysZero(passed) == IF passed THEN 0 ELSE 0

\* main line 417: sys.exit(0 if overall_passed else 1).
ExitCode(passed) == IF passed THEN 0 ELSE 1

\* json.dumps(report): the report as JSON text, an object of five members.
json_dumps(rep) ==
    << <<"timestamp", rep.timestamp>>,
       <<"project", rep.project>>,
       <<"overall_passed", IF rep.overall_passed THEN "true" ELSE "false">>,
       <<"services", rep.services>>,
       <<"results", rep.results>> >>

\* json.loads(text): the value read back from a report file.
json_loads(text) ==
    [timestamp |-> text[1][2], project |-> text[2][2],
     overall_passed |-> (text[3][2] = "true"),
     services |-> text[4][2], results |-> text[5][2]]

\* The five fields of the report of main.
ReportFields(rep) ==
    [timestamp |-> rep.timestamp, project |-> rep.project,
     overall_passed |-> rep.overall_passed,
     services |-> rep.services, results |-> rep.results]

\* What the report path can hold before the run: nothing, or an earlier report.
PriorFiles ==
    {[exists |-> FALSE, text |-> <<>>], [exists |-> TRUE, text |-> json_dumps(StaleReport)]}

\* main lines 394-400: the report path after `if report_path: try: write_text(
\* json.dumps(report)) except Exception: pass`.
write_report(rep, path_set, prior, write_ok) ==
    IF path_set /\ write_ok
    THEN [configured |-> TRUE, written |-> TRUE, exists |-> TRUE, text |-> json_dumps(rep)]
    ELSE [configured |-> path_set, written |-> FALSE, exists |-> prior.exists,
          text |-> prior.text]

CurrentTest == Len(results) + 1

\* ------------------------------------------- repair loop: data and helpers
\* Relative paths are sequences of segments: "backend/app.py" is
\* <<"backend", "app.py">>.
Paths == {<<"backend", "app.py">>, <<"frontend", "index.html">>, <<"README.md">>}

\* rel.startswith(root + "/").
StartsWith(rel, root) == Len(rel) > 1 /\ rel[1] = root

\* The tests a report can list, by type and name.
TestKinds ==
    {[type |-> "junit", name |-> "backend-api"],
     [type |-> "playwright", name |-> "ui-e2e"],
     [type |-> "raw", name |-> "smoke"]}

\* Which of the words infer_failure_target looks for occur in a type or a name.
WordsIn(str) ==
    CASE str = "junit" -> {"junit"}
      [] str = "playwright" -> {"playwright"}
      [] str = "backend-api" -> {"backend"}
      [] str = "ui-e2e" -> {"ui"}
      [] str = "pytest" -> {"pytest"}
      [] str = "build" -> {"ui"}
      [] str = "frontend-backend" -> {"frontend", "backend"}
      [] OTHER -> {}

ReportResults ==
    UNION {[1..n -> [type: {"junit", "playwright", "raw"},
                     name: {"backend-api", "ui-e2e", "smoke"},
                     returncode: ExitCodes]] : n \in 0..MaxResults}

\* run_tests_with_config lines 675-685: what no report file and no JSON on
\* stdout, or an unreadable report, give: a dict without overall_passed and
\* without results (read with their .get defaults).
ErrorReport == [kind |-> "error", overall_passed |-> FALSE, results |-> <<>>]

\* The reports run_tests_with_config can hand over: the error dict, the report
\* of a run whose services did not all come up, and the reports of runs that
\* ran their tests (overall_passed as main computes it).
Reports ==
    {ErrorReport, [kind |-> "report", overall_passed |-> FALSE, results |-> <<>>]}
    \cup {[kind |-> "report",
           overall_passed |-> (\A i \in 1..Len(rs) : rs[i].returncode = 0),
           results |-> rs] :
            rs \in {r \in ReportResults :
                      \A i \in 1..Len(r) : [type |-> r[i].type, name |-> r[i].name] \in TestKinds}}

\* What the loop reads of a report before it infers a target: whether it is an
\* error dict, and overall_passed.  The results are read by infer_failure_target.
ReportHead(rep) == [kind |-> rep.kind, overall_passed |-> rep.overall_passed]

\* The reports that read as head.
ReportsWith(head) == {rep \in Reports : ReportHead(rep) = head}

\* Variant: every result is looked at, whatever its returncode.
infer_failure_target_any_rc(rep) ==
    LET words(i) == WordsIn(rep.results[i].type) \cup WordsIn(rep.results[i].name)
        targets ==
            {t \in {"backend", "frontend"} :
                \E i \in 1..Len(rep.results) :
                    IF t = "backend"
                    THEN words(i) \cap {"junit", "pytest", "backend"} # {}
                    ELSE words(i) \cap {"playwright", "ui", "frontend"} # {}}
    IN  IF targets = {"backend"} THEN "backend"
        ELSE IF targets = {"frontend"} THEN "frontend"
        ELSE "both"

\* infer_failure_target lines 690-703.
infer_failure_target(rep) ==
    LET failed == {i \in 1..Len(rep.results) : rep.results[i].returncode # 0}
        words(i) == WordsIn(rep.results[i].type) \cup WordsIn(rep.results[i].name)
        targets ==
            {t \in {"backend", "frontend"} :
                \E i \in failed :
                    IF t = "backend"
                    THEN words(i) \cap {"junit", "pytest", "backend"} # {}
                    ELSE words(i) \cap {"playwright", "ui", "frontend"} # {}}
    IN  IF targets = {"backend"} THEN "backend"
        ELSE IF targets = {"frontend"} THEN "frontend"
        ELSE "both"

\* Variant: every editable file may be written whatever the target.
subset_all(allowed, tgt) == allowed

\* llm_repair_once lines 713-718: the files the cycle may write.
subset(allowed, tgt) ==
    IF tgt = "backend" THEN {r \in allowed : StartsWith(r, "backend")}
    ELSE IF tgt = "frontend" THEN {r \in allowed : StartsWith(r, "frontend")}
    ELSE allowed

\* The answers of the fix generator: text that holds no JSON object, or a JSON
\* object whose keys are files and whose values are all strings or not.
LlmAnswers ==
    {[parsed |-> FALSE, files |-> {}, strings |-> TRUE]}
    \cup {[parsed |-> TRUE, files |-> fs, strings |-> TRUE] : fs \in SUBSET Paths}
    \cup {[parsed |-> TRUE, files |-> fs, strings |-> FALSE] : fs \in (SUBSET Paths) \ {{}}}

NoAnswer == [parsed |-> FALSE, files |-> {}, strings |-> TRUE]

\* llm_repair_once lines 743-755: the keys of the answer that are written.
Accepted(ans, sub) == IF ans.parsed THEN {rel \in ans.files : rel \in sub} ELSE {}

\* Variant: one more fix cycle than the budget.
LoopContinuesOneMore(ok, n) == ~ok /\ n <= MAX_REPAIR_TRIES

\* repair_loop_if_needed line 765: `while not ok and tries < MAX_REPAIR_TRIES`.
LoopContinues(ok, n) == ~ok /\ n < MAX_REPAIR_TRIES

\* Variant: the tests are rerun after a cycle that changed nothing.
NoChangeIgnored(changed) == FALSE

\* repair_loop_if_needed line 770: `if not changed: break`.
NoChange(changed) == ~changed

\* How one orchestrator process ends: with a report whose overall_passed is true
\* or false, or by an exception, without a report.
Outcomes == {"pass", "fail", "crash"}

\* The report path holds no file, or a report with that verdict.
FileStates == {"absent", "pass", "fail"}

\* run_all_tests.py main lines 394-400, in a run started by run_tests_with_config
\* (a report path is always configured, generate_content.py line 445): the
\* report path after the process ended.
file_after_run(file, outcome, write_ok) ==
    IF outcome # "crash" /\ write_ok THEN outcome ELSE file

\* run_tests_with_config lines 674-687: the data handed over, read from the
\* report file when one exists, else from the stdout of the process.
handed_report(file, outcome) ==
    IF file # "absent" THEN [kind |-> "report", overall_passed |-> (file = "pass")]
    ELSE IF outcome # "crash" THEN [kind |-> "report", overall_passed |-> (outcome = "pass")]
    ELSE [kind |-> "error", overall_passed |-> FALSE]

RunEvents == {"run:pass", "run:fail", "run:crash", "run:raise"}
FixEvents == {"fix:changed", "fix:none", "fix:raise"}

\* The repair loop is not running.
RepairIdle ==
    /\ rl_pc = "idle"
    /\ allowed_rel = {}
    /\ rl_ok = FALSE
    /\ rl_report = ReportHead(ErrorReport)
    /\ tries = 0
    /\ target = "both"
    /\ rl_ret = FALSE
    /\ rl_file = "absent"
    /\ llm = NoAnswer
    /\ written = {}
    /\ touched = {}
    /\ events = <<>>

\* ------------------------------------- plan composition: data and helpers
\* A path is the sequence of its segments, split at "/" and at "\" (the code
\* replaces "\" by "/" before it looks at a path): "./backend/api" is
\* <<".", "backend", "api">>, "/tmp" is <<"", "tmp">>.  <<>> stands for a key
\* that the entry does not have.
Absent == <<>>

\* content/code/{slug} for the slug of the call.
ProjectDir == <<"content", "code", "p">>

\* cwd values of services and tests.
CwdInputs ==
    {Absent, <<"backend">>, <<".", "backend", "api">>, <<"frontend">>,
     <<"backend", "..", "..", "x">>, <<"scripts">>, <<"..", "x">>, <<"", "tmp">>,
     <<"content", "x">>}

ServiceCwdInputs == {Absent, <<"backend">>, <<"frontend", "..", "..", "..">>, <<"scripts">>}

\* junit_xml values of tests.
JunitInputs ==
    {Absent, <<"backend", "report.xml">>, <<"..", "..", "report.xml">>,
     <<"content", "code", "q", "report.xml">>, <<"content", "code", "p", "backend", "r.xml">>}

\* Python values of a command field: a list (of str and int items), a str
\* (iterating it gives its characters), an int.
L_STR == [py |-> "list", items |-> <<"str", "str">>]
L_MIXED == [py |-> "list", items |-> <<"str", "int">>]
A_STR == [py |-> "str", items |-> <<"char", "char">>]
AN_INT == [py |-> "int", items |-> <<>>]
CmdValues == {L_STR, L_MIXED, A_STR, AN_INT}

\* install values: no key, a str, or a list of one command.
InstallValues ==
    {[py |-> "absent", cmds |-> <<>>], [py |-> "str", cmds |-> <<>>]}
    \cup {[py |-> "list", cmds |-> <<c>>] : c \in CmdValues}

PlanServices == [cwd: ServiceCwdInputs, start: CmdValues]
PlanTests ==
    [cwd: CwdInputs, type: {"junit", "raw"}, junit_xml: JunitInputs, cmd: CmdValues,
     install: InstallValues]

\* The merged plans passed to _expand_project_paths: at most one service, one test.
Plans ==
    [services: {<<>>} \cup {<<sv>> : sv \in PlanServices},
     tests: {<<t>> : t \in PlanTests}]

NoPlan == [services |-> <<>>, tests |-> <<>>]

\* isinstance(x, list) and all(isinstance(s, str) for s in x).
IsListOfStr(v) ==
    v.py = "list" /\ \A i \in 1..Len(v.items) : v.items[i] \in {"str", "char"}

\* [str(x) for x in v] raises (TypeError) when v cannot be iterated.
str_each_raises(v) == v.py = "int"

\* [str(x) for x in v]: a list of str; the characters of a str stay characters.
str_each(v) ==
    [py |-> "list",
     items |-> [i \in 1..Len(v.items) |-> IF v.items[i] = "char" THEN "char" ELSE "str"]]

\* is_safe_relpath lines 83-86, on a path that ends with "/".
is_safe_relpath(rel) ==
    IF StartsWith(rel, "..") \/ StartsWith(rel, "") \/ StartsWith(rel, "content")
    THEN FALSE
    ELSE StartsWith(rel, "backend") \/ StartsWith(rel, "frontend")

\* cwd + ("/" if not cwd.endswith("/") else "").
WithSlash(cwd) == IF cwd # <<>> /\ cwd[Len(cwd)] = "" THEN cwd ELSE cwd \o <<"">>

\* expand_cwd lines 385-386: `while cwd.startswith("./"): cwd = cwd[2:]`.
RECURSIVE StripDotSlash(_)
StripDotSlash(cwd) == IF StartsWith(cwd, ".") THEN StripDotSlash(Tail(cwd)) ELSE cwd

\* cwd == root or cwd.startswith(root + "/").
UnderRoot(cwd, root) == cwd = <<root>> \/ StartsWith(cwd, root)

\* expand_cwd lines 383-393 raises ValueError.
expand_cwd_raises(cwd) ==
    LET c == StripDotSlash(cwd) IN
    /\ ~UnderRoot(c, "backend")
    /\ ~UnderRoot(c, "frontend")
    /\ ~is_safe_relpath(WithSlash(c))

\* expand_cwd lines 383-393: f"content/code/{slug}/{cwd}".
expand_cwd(cwd) == ProjectDir \o StripDotSlash(cwd)

\* _expand_project_paths lines 401-404: junit_xml of a junit test.
expand_junit(t) ==
    IF t.type = "junit" /\ t.junit_xml # Absent /\ ~StartsWith(t.junit_xml, "content")
    THEN ProjectDir \o t.junit_xml
    ELSE t.junit_xml

\* _expand_project_paths lines 405-406: install, when it is a list.
expand_install(v) ==
    IF v.py = "list"
    THEN [py |-> "list", cmds |-> [i \in 1..Len(v.cmds) |-> str_each(v.cmds[i])]]
    ELSE v

expand_service(sv) ==
    [cwd |-> IF sv.cwd # Absent THEN expand_cwd(sv.cwd) ELSE Absent, start |-> sv.start]

expand_test(t) ==
    [cwd |-> IF t.cwd # Absent THEN expand_cwd(t.cwd) ELSE Absent,
     type |-> t.type,
     junit_xml |-> expand_junit(t),
     cmd |-> str_each(t.cmd),
     install |-> expand_install(t.install)]

\* _expand_project_paths lines 381-410 raises: an illegal cwd (ValueError), or a
\* cmd or an install command that cannot be iterated (TypeError).
expand_project_paths_raises(merged) ==
    \/ \E i \in 1..Len(merged.services) :
          merged.services[i].cwd # Absent /\ expand_cwd_raises(merged.services[i].cwd)
    \/ \E i \in 1..Len(merged.tests) :
          LET t == merged.tests[i] IN
          \/ t.cwd # Absent /\ expand_cwd_raises(t.cwd)
          \/ t.install.py = "list" /\ \E k \in 1..Len(t.install.cmds) :
                                         str_each_raises(t.install.cmds[k])
          \/ str_each_raises(t.cmd)

\* _expand_project_paths lines 381-410: the plan returned.
expand_project_paths(merged) ==
    [services |-> [i \in 1..Len(merged.services) |-> expand_service(merged.services[i])],
     tests |-> [i \in 1..Len(merged.tests) |-> expand_test(merged.tests[i])]]

\* The path with its "." and ".." segments resolved; a ".." that climbs above
\* the start stays.
RECURSIVE Resolve(_, _)
Resolve(segs, acc) ==
    IF segs = <<>> THEN acc
    ELSE IF Head(segs) \in {".", ""} THEN Resolve(Tail(segs), acc)
    ELSE IF Head(segs) = ".."
         THEN Resolve(Tail(segs),
                      IF acc # <<>> /\ acc[Len(acc)] # ".."
                      THEN SubSeq(acc, 1, Len(acc) - 1)
                      ELSE Append(acc, ".."))
    ELSE Resolve(Tail(segs), Append(acc, Head(segs)))

\* The path lies in content/code/{slug}/.
Inside(path) ==
    LET r == Resolve(path, <<>>) IN
    Len(r) >= Len(ProjectDir) /\ SubSeq(r, 1, Len(ProjectDir)) = ProjectDir

\* _expand_project_paths is not running.
ComposeIdle ==
    /\ cp_pc = "idle"
    /\ cp_in = NoPlan
    /\ cp_out = NoPlan
    /\ cp_again = NoPlan

\* ------------------------------------ template resolution: data and helpers
\* The words looked for in a topic.  `k in t` is a substring test on the
\* lower-cased topic; a topic is modelled by the set of these words in it.
Keywords == {"flask", "react"}
Topics == SUBSET Keywords

\* tpl["detect"]: the keywords of a template, in declared order.
DetectLists == {<<>>, <<"flask">>, <<"react">>, <<"flask", "react">>}

\* name: None or "" (both false in `name or ...`), or a template name.
NoName == ""
NameArgs == {NoName, "flask", "Flask", "my stack"}

\* The folders the template directory can hold.
StackNames == {"flask", "react", "generic", "my-stack"}

\* A command of a template: a list[str], an empty list, a str.
L_EMPTY == [py |-> "list", items |-> <<>>]
TemplateCmds == {L_STR, L_EMPTY, A_STR}

ServiceKeys == {"name", "cwd", "start"}
TestKeys == {"name", "type", "cwd", "cmd"}

\* An entry of tpl["services"]: the required keys it has, the value of start.
TemplateServices == [keys: {ServiceKeys, ServiceKeys \ {"cwd"}}, start: TemplateCmds]

\* An entry of tpl["tests"]: the required keys it has, the value of cmd.
TemplateTests == [keys: {TestKeys, TestKeys \ {"type"}}, cmd: TemplateCmds]

\* tpl["services"] or tpl["tests"]: no such key, a value that is no list, or a
\* list of at most one entry.
ListValues(entries) ==
    {[py |-> "missing", items |-> <<>>], [py |-> "notlist", items |-> <<>>],
     [py |-> "list", items |-> <<>>]}
    \cup {[py |-> "list", items |-> <<e>>] : e \in entries}

\* What yaml.safe_load gives that is no mapping (None, a str, a list).
NotAMapping ==
    [mapping |-> FALSE, detect |-> <<>>,
     services |-> [py |-> "missing", items |-> <<>>],
     tests |-> [py |-> "missing", items |-> <<>>]]

\* What the generator's answer parses to in autogen_template.
LlmTemplates ==
    {NotAMapping}
    \cup [mapping: {TRUE}, detect: {<<>>}, services: ListValues(TemplateServices),
          tests: ListValues(TemplateTests)]

OneTest == [py |-> "list", items |-> <<[keys |-> TestKeys, cmd |-> L_STR]>>]

\* What an entry file of the template directory loads to before the call.
StoredTemplates ==
    {NotAMapping}
    \cup [mapping: {TRUE}, detect: DetectLists,
          services: {[py |-> "notlist", items |-> <<>>]}
                    \cup {[py |-> "list", items |-> <<sv>>] :
                            sv \in {[keys |-> ServiceKeys, start |-> L_STR],
                                    [keys |-> ServiceKeys, start |-> L_EMPTY],
                                    [keys |-> ServiceKeys \ {"cwd"}, start |-> L_STR]}},
          tests: {OneTest}]

\* A folder without entry file, or no folder.
NoEntry ==
    [mapping |-> FALSE, detect |-> <<"absent">>,
     services |-> [py |-> "missing", items |-> <<>>],
     tests |-> [py |-> "missing", items |-> <<>>]]

\* The template directories a call can find: the folders flask and generic
\* hold an entry file or not, no other folder exists.
Storages ==
    {[n \in StackNames |-> IF n = "flask" THEN a ELSE IF n = "generic" THEN b ELSE NoEntry] :
        a \in StoredTemplates \cup {NoEntry}, b \in StoredTemplates \cup {NoEntry}}

\* scan_templates lines 182-208: the folders whose entry file loads to a dict.
scan_templates(st) == {n \in StackNames : st[n] # NoEntry /\ st[n].mapping}

\* best_match_by_topic line 215: how many keywords of the template occur in
\* the topic.
Score(tpl, topic) == Cardinality({i \in 1..Len(tpl.detect) : tpl.detect[i] \in topic})

\* best_match_by_topic lines 210-218: the first template of highest score above
\* zero, None when there is none.  The order of reg.items() is the order of
\* iterdir(), which the file system decides: any template of highest score
\* can be the first.
best_match_by_topic(st, topic) ==
    LET reg == scan_templates(st)
        best == {n \in reg : Score(st[n], topic) > 0
                             /\ \A m \in reg : Score(st[m], topic) <= Score(st[n], topic)}
    IN  IF best = {} THEN {NoName} ELSE best

\* load_or_autogen_template line 291: chosen = name or best_match_by_topic(...).
Chosen(name, st, topic) ==
    IF name # NoName THEN {name} ELSE best_match_by_topic(st, topic)

\* norm_cmd_list lines 117-120 raises.
norm_cmd_list_raises(x) == ~IsListOfStr(x)

\* validate_template lines 220-236 raises.
validate_template_raises(tpl) ==
    \/ ~tpl.mapping
    \/ tpl.services.py # "list"
    \/ tpl.tests.py # "list"
    \/ \E i \in 1..Len(tpl.services.items) :
          \/ ~(ServiceKeys \subseteq tpl.services.items[i].keys)
          \/ norm_cmd_list_raises(tpl.services.items[i].start)
    \/ \E i \in 1..Len(tpl.tests.items) :
          \/ ~(TestKeys \subseteq tpl.tests.items[i].keys)
          \/ norm_cmd_list_raises(tpl.tests.items[i].cmd)

\* Variant: whatever the generator answered is taken for a template.
autogen_template_unchecked(raw) == FALSE

\* autogen_template lines 277-284 raises: the answer is no mapping, or it fails
\* the schema check.
autogen_template_raises(raw) == ~raw.mapping \/ validate_template_raises(raw)

\* role_from_topic lines 335-344 (fastapi, spring, express come between flask
\* and react, vue and svelte after it; no topic drawn holds them).
role_from_topic(topic) ==
    IF "flask" \in topic THEN "flask"
    ELSE IF "react" \in topic THEN "react"
    ELSE "generic"

\* str.lower() on the names drawn.
Lower(s) == IF s = "Flask" THEN "flask" ELSE IF s = "REACT" THEN "react" ELSE s

\* load_or_autogen_template line 313: every run of characters outside
\* [a-z0-9-] becomes one "-".  (The result is never empty for the names drawn,
\* so the "<kind>-auto" default is not taken.)
Dashed(s) == IF s = "my stack" THEN "my-stack" ELSE s

\* load_or_autogen_template lines 312-313: the folder of the new template.
base_name(name, topic) ==
    Dashed(Lower(IF name # NoName THEN name ELSE role_from_topic(topic)))

\* save_template lines 238-244 and write lines 58-63: the entry file after the
\* write.  open(path, "w") empties an existing file before anything is written.
WriteOutcomes == {"ok", "open-failed", "write-failed"}
save_template(st, name, tpl, outcome) ==
    CASE outcome = "ok" -> [st EXCEPT ![name] = tpl]
      [] outcome = "write-failed" -> [st EXCEPT ![name] = NotAMapping]
      [] OTHER -> st

\* No template in hand.
NoTemplate == [mapping |-> FALSE]

\* The template directory is not looked at.
NoStorage == <<>>

\* No call of load_or_autogen_template is looked into.
ResolveIdle ==
    /\ rs_pc = "idle"
    /\ rs_name = NoName
    /\ rs_topic = {}
    /\ storage = NoStorage
    /\ storage0 = NoStorage
    /\ rs_chosen = NoName
    /\ rs_tpl = NoTemplate
    /\ rs_ret = NoTemplate
    /\ rs_how = "none"

\* --------------------------------------- generator main: data and helpers
\* args of main: --mode, --dry-run, --skip-repair.
GenArgs == [mode: {"scaffold", "content", "verify", "all"}, dry_run: BOOLEAN,
            skip_repair: BOOLEAN]

\* main line 858: `if args.mode in ("scaffold", "all")`.
Scaffolds(args) == args.mode \in {"scaffold", "all"}

\* main lines 873-877: the dry run ends main here.
DryRunReturns(args) == args.dry_run /\ args.mode # "all"

\* main lines 880 and 888: `if not tests_ok and not args.skip_repair`.
EntersRepair(ok, args) == ~ok /\ ~args.skip_repair

\* main line 885: `if args.mode == "all"`.
Customizes(args) == args.mode = "all"

\* main lines 880-885 and 888: where main goes on after a test run or a repair
\* loop at position p.
AfterTests(p, ok, args) ==
    IF p \in {"initial_tests", "retest"} /\ EntersRepair(ok, args)
    THEN (IF p = "initial_tests" THEN "repair" ELSE "repair_again")
    ELSE IF p \in {"initial_tests", "repair"} /\ Customizes(args) THEN "customize"
    ELSE "modes"

\* No run of the generator's main is looked into.
GenIdle ==
    /\ gm_pc = "idle"
    /\ gm_args = [mode |-> "verify", dry_run |-> FALSE, skip_repair |-> FALSE]
    /\ gm_ok = FALSE
    /\ gm_calls = <<>>

\* ------------------------------------ infer_failure_target: data and helpers
\* The reports passed to infer_failure_target: every result has a type (that of
\* its adapter, or the declared type of a test whose install failed), a name
\* and a returncode.
InferReports ==
    {[kind |-> "report", overall_passed |-> FALSE, results |-> rs] :
        rs \in UNION {[1..n -> [type: {"junit", "playwright", "raw", "pytest"},
                                name: {"backend-api", "ui-e2e", "smoke", "build",
                                       "frontend-backend"},
                                returncode: ExitCodes]] : n \in 0..MaxResults}}

\* No call of infer_failure_target is looked into.
InferIdle ==
    /\ if_pc = "idle"
    /\ if_report = ErrorReport
    /\ if_target = "both"

\* -------------------------------------- keyword matching: data and helpers
\* Longest registry drawn for a call of best_match_by_topic.
MaxTemplates == 2

\* Items of tpl["detect"] as the template file writes them: keywords, and an
\* item that is not a str.
KW_FLASK == [py |-> "str", text |-> "flask"]
KW_FLASK_CAP == [py |-> "str", text |-> "Flask"]
KW_REACT == [py |-> "str", text |-> "react"]
NOT_A_STR == [py |-> "int", text |-> "3"]

\* tpl.get("detect", []): the lists drawn ([] also stands for a missing key).
MatchDetects ==
    {<<>>, <<KW_FLASK>>, <<KW_FLASK_CAP>>, <<KW_REACT>>, <<KW_FLASK, KW_REACT>>,
     <<KW_FLASK, KW_FLASK>>, <<NOT_A_STR, KW_REACT>>}

\* reg in the order of reg.items(): up to MaxTemplates templates whose names
\* differ (reg is a dict), in any order (the order is that of iterdir()).
RECURSIVE Registries(_)
Registries(n) ==
    IF n = 0 THEN {<<>>}
    ELSE LET shorter == Registries(n - 1) IN
         shorter \cup
         {Append(r, [name |-> m, detect |-> d]) :
            r \in {x \in shorter : Len(x) = n - 1},
            m \in StackNames, d \in MatchDetects}

DistinctNames(r) == \A i, j \in 1..Len(r) : r[i].name = r[j].name => i = j

\* topic: the words of the text, as written.  <<>> is "" and None, which
\* `(topic or "")` turns into "".
MatchTopics == {<<>>, <<"todo">>, <<"Flask", "api">>, <<"flask", "REACT">>}

\* (topic or "").lower().
LowerTopic(topic) == [i \in 1..Len(topic) |-> Lower(topic[i])]

\* `k in t`: the substring test, for keywords and topics whose words are not
\* part of one another.
Occurs(k, t) == \E i \in 1..Len(t) : t[i] = k

\* best_match_by_topic line 214: kws = [k.lower() for k in detect if isinstance(k, str)].
kws(detect) ==
    LET strs == SelectSeq(detect, LAMBDA k : k.py = "str") IN
    [i \in 1..Len(strs) |-> Lower(strs[i].text)]

\* best_match_by_topic line 215: sc = sum(1 for k in kws if k in t) if kws else 0.
sc(detect, t) ==
    IF kws(detect) # <<>>
    THEN Cardinality({i \in 1..Len(kws(detect)) : Occurs(kws(detect)[i], t)})
    ELSE 0

\* Variant: a template that scores as much as the best so far replaces it.
BetterOrEqual(s, score) == s >= score

\* best_match_by_topic line 216: `if sc > score`.
Better(s, score) == s > score

\* No call of best_match_by_topic is looked into.
MatchIdle ==
    /\ bm_pc = "idle"
    /\ bm_reg = <<>>
    /\ bm_topic = <<>>
    /\ bm_i = 0
    /\ bm_best = NoName
    /\ bm_score = 0

\* ------------------------------------------- plan loading: Python values
\* A value that yaml.safe_load gives: t is its type ("none", "bool", "int",
\* "str", "list", "map"); s is the text of a str, split at "/" ("backend/api"
\* is <<"backend", "api">>, "" is <<"">>, "/root" is <<"", "root">>), or the
\* text that str() gives for a bool or an int; items are the items of a list
\* (k is "") or the (k, v) pairs of a dict, in insertion order.
NoneV == [t |-> "none", s |-> <<>>, items |-> <<>>]
StrV(text) == [t |-> "str", s |-> text, items |-> <<>>]
IntV(digits) == [t |-> "int", s |-> <<digits>>, items |-> <<>>]
BoolV(b) == [t |-> "bool", s |-> <<IF b THEN "True" ELSE "False">>, items |-> <<>>]
ListV(vs) ==
    [t |-> "list", s |-> <<>>, items |-> [i \in 1..Len(vs) |-> [k |-> "", v |-> vs[i]]]]
MapV(kvs) == [t |-> "map", s |-> <<>>, items |-> kvs]
KV(k, v) == [k |-> k, v |-> v]
EmptyMap == MapV(<<>>)
EmptyList == ListV(<<>>)

\* k in m, m.get(k), and m[k] = v on a dict m.
Has(m, k) == \E i \in 1..Len(m.items) : m.items[i].k = k
Get(m, k) ==
    IF Has(m, k) THEN m.items[CHOOSE i \in 1..Len(m.items) : m.items[i].k = k].v ELSE NoneV
Put(m, k, v) ==
    IF Has(m, k)
    THEN [m EXCEPT !.items = [i \in 1..Len(m.items) |->
                                IF m.items[i].k = k THEN [k |-> k, v |-> v] ELSE m.items[i]]]
    ELSE [m EXCEPT !.items = Append(m.items, [k |-> k, v |-> v])]
KeysOf(m) == {m.items[i].k : i \in 1..Len(m.items)}

\* m.get(k, default) or default: the value when it is truthy.
Truthy(v) ==
    CASE v.t = "none" -> FALSE
      [] v.t = "bool" -> v.s = <<"True">>
      [] v.t = "int" -> v.s # <<"0">>
      [] v.t = "str" -> v.s # <<"">>
      [] OTHER -> v.items # <<>>
GetOr(m, k, default) == IF Truthy(Get(m, k)) THEN Get(m, k) ELSE default

\* str(v), split at "/", for the values that variables are given.
py_str(v) == IF v.t = "none" THEN <<"None">> ELSE v.s

\* Variant: the second value replaces the first, maps included.
deep_merge_shallow(a, b) == b

\* deep_merge lines 349-355.  MergeItems is its loop `for k, v in b.items()`
\* over the dict out, which starts as dict(a).
RECURSIVE deep_merge(_, _), MergeItems(_, _)
deep_merge(a, b) ==
    IF a.t = "map" /\ b.t = "map" THEN MergeItems(a, b.items) ELSE b

MergeItems(out, pairs) ==
    IF pairs = <<>> THEN out
    ELSE LET k == Head(pairs).k
             v == Head(pairs).v
         IN  MergeItems(Put(out, k, deep_merge(Get(out, k), v)), Tail(pairs))

\* ------------------------------------------- plan loading: data and helpers
\* Longest extends list drawn for a call of load_and_compose_test_config.
MaxExtends == 2

\* slug, and the text of slug.
Slug == StrV(<<"p">>)

\* _VAR_RE line 347, "\$\{([A-Z0-9_]+)\}": the pieces of text that match, and
\* m.group(1) of each.  A token is a whole piece between two "/".  "${dir}"
\* does not match (lower case).
Tokens == {"${DIR}", "${PORT}", "${HOME}", "${SLUG}", "${__PROJECT__}", "${UNSET}"}
NameIn(tok) ==
    CASE tok = "${DIR}" -> "DIR"
      [] tok = "${PORT}" -> "PORT"
      [] tok = "${HOME}" -> "HOME"
      [] tok = "${SLUG}" -> "SLUG"
      [] tok = "${__PROJECT__}" -> "__PROJECT__"
      [] tok = "${UNSET}" -> "UNSET"

\* resolve_vars lines 375-377, repl:
\* str(vars_map.get(key, os.environ.get(key, m.group(0)))).
repl(tok, vars_map, environ) ==
    IF Has(vars_map, NameIn(tok)) THEN py_str(Get(vars_map, NameIn(tok)))
    ELSE IF Has(environ, NameIn(tok)) THEN py_str(Get(environ, NameIn(tok)))
    ELSE <<tok>>

\* resolve_vars line 378: _VAR_RE.sub(repl, obj).
RECURSIVE re_sub(_, _, _)
re_sub(text, vars_map, environ) ==
    IF text = <<>> THEN <<>>
    ELSE (IF Head(text) \in Tokens THEN repl(Head(text), vars_map, environ)
          ELSE <<Head(text)>>)
         \o re_sub(Tail(text), vars_map, environ)

\* resolve_vars lines 369-379; environ is os.environ.
RECURSIVE resolve_vars(_, _, _)
resolve_vars(obj, vars_map, environ) ==
    CASE obj.t \in {"map", "list"} ->
           [obj EXCEPT !.items =
               [i \in 1..Len(obj.items) |->
                   [k |-> obj.items[i].k,
                    v |-> resolve_vars(obj.items[i].v, vars_map, environ)]]]
      [] obj.t = "str" -> StrV(re_sub(obj.s, vars_map, environ))
      [] OTHER -> obj

\* {**a, **b}: b's values win, a's keys keep their place.
RECURSIVE dict_update(_, _)
dict_update(a, pairs) ==
    IF pairs = <<>> THEN a
    ELSE dict_update(Put(a, Head(pairs).k, Head(pairs).v), Tail(pairs))

\* Variant: the variables of the templates and of the project win over the
\* reserved ones.
vars_combined_user_wins(base_vars, proj_vars, slug) ==
    dict_update(dict_update(MapV(<<KV("__PROJECT__", slug), KV("SLUG", slug)>>),
                            base_vars.items),
                proj_vars.items)

\* load_and_compose_test_config lines 428-430:
\* {**base_vars, **proj_vars, "__PROJECT__": slug, "SLUG": slug}.
vars_combined(base_vars, proj_vars, slug) ==
    dict_update(dict_update(base_vars, proj_vars.items),
                <<KV("__PROJECT__", slug), KV("SLUG", slug)>>)

\* The values of a list, as a sequence.
ValuesOf(list) == [i \in 1..Len(list.items) |-> list.items[i].v]

\* merge_named_list line 359: idx, the index of the named dict items of
\* base_list by name; of two items with one name the later one is kept.
idx(base, name) ==
    LET named == {i \in 1..Len(base) :
                    /\ base[i].t = "map"
                    /\ Has(base[i], "name")
                    /\ Get(base[i], "name") = StrV(<<name>>)}
    IN  IF named = {} THEN 0 ELSE CHOOSE i \in named : \A j \in named : j <= i

\* merge_named_list lines 361-364: the loop over override_map.items().
RECURSIVE PatchAll(_, _, _)
PatchAll(out, base, patches) ==
    IF patches = <<>> THEN out
    ELSE LET i == idx(base, Head(patches).k) IN
         PatchAll([j \in 1..Len(out) |->
                      IF j = i THEN deep_merge(out[j], Head(patches).v) ELSE out[j]],
                  base, Tail(patches))

\* merge_named_list lines 357-366, before the filter: out.
Patched(base_list, override_map, add_list) ==
    LET base == IF Truthy(base_list) THEN ValuesOf(base_list) ELSE <<>>
        patches == IF Truthy(override_map) THEN override_map.items ELSE <<>>
        added == IF Truthy(add_list) THEN ValuesOf(add_list) ELSE <<>>
    IN  PatchAll(base, base, patches) \o added

\* merge_named_list line 367 raises AttributeError: x.get on an x that is no dict.
merge_named_list_raises(base_list, override_map, add_list) ==
    LET out == Patched(base_list, override_map, add_list) IN
    \E i \in 1..Len(out) : out[i].t # "map"

\* Variant: entries flagged disabled stay in the list.
KeptAll(x) == TRUE

\* merge_named_list line 367: `not x.get("disabled")`.
Kept(x) == ~Truthy(Get(x, "disabled"))

\* merge_named_list lines 357-367.
merge_named_list(base_list, override_map, add_list) ==
    ListV(SelectSeq(Patched(base_list, override_map, add_list), Kept))

\* load_and_compose_test_config line 433: ov without the list keys.
FreeForm(ov) ==
    MapV(SelectSeq(ov.items, LAMBDA e : e.k \notin {"services", "tests", "add_tests"}))

\* expand_cwd lines 383-393 on the value of the key cwd.
cwd_text(v) == IF Truthy(v) THEN v.s ELSE <<"">>

\* _expand_project_paths lines 396-398 and 399-409: one service, one test.
expand_service_entry(sv) ==
    IF Has(sv, "cwd") THEN Put(sv, "cwd", StrV(expand_cwd(cwd_text(Get(sv, "cwd")))))
    ELSE sv

expand_test_entry(t) ==
    LET t1 == expand_service_entry(t)
        j == Get(t1, "junit_xml")
        t2 == IF Get(t1, "type") = StrV(<<"junit">>) /\ Truthy(j)
                 /\ ~StartsWith(j.s, "content")
              THEN Put(t1, "junit_xml", StrV(ProjectDir \o j.s))
              ELSE t1
        c == Get(t2, "cmd")
    IN  IF Has(t2, "cmd")
        THEN Put(t2, "cmd", ListV([i \in 1..Len(c.items) |-> StrV(py_str(c.items[i].v))]))
        ELSE t2

\* _expand_project_paths lines 381-410 on a loaded plan: raises ValueError.
expand_plan_raises(merged) ==
    \E key \in {"services", "tests"} :
        \E i \in 1..Len(Get(merged, key).items) :
            LET e == Get(merged, key).items[i].v IN
            Has(e, "cwd") /\ expand_cwd_raises(cwd_text(Get(e, "cwd")))

\* _expand_project_paths lines 381-410 on a loaded plan: the plan returned.
expand_plan(merged) ==
    LET svcs == ValuesOf(Get(merged, "services"))
        tests == ValuesOf(Get(merged, "tests"))
        m1 == Put(merged, "services",
                  ListV([i \in 1..Len(svcs) |-> expand_service_entry(svcs[i])]))
    IN  Put(m1, "tests", ListV([i \in 1..Len(tests) |-> expand_test_entry(tests[i])]))

\* merged.setdefault(k, v).
setdefault(m, k, v) == IF Has(m, k) THEN m ELSE Put(m, k, v)

\* Variant: the sandbox rule is applied before the variables are resolved.
StageAfterSandboxFirst(stage) ==
    CASE stage = "extend" -> "vars"
      [] stage = "vars" -> "overrides"
      [] stage = "overrides" -> "expand"
      [] stage = "expand" -> "resolve"
      [] stage = "resolve" -> "defaults"
      [] stage = "defaults" -> "returned"

\* load_and_compose_test_config lines 420-448: the order of its stages.
StageAfter(stage) ==
    CASE stage = "extend" -> "vars"
      [] stage = "vars" -> "overrides"
      [] stage = "overrides" -> "resolve"
      [] stage = "resolve" -> "expand"
      [] stage = "expand" -> "defaults"
      [] stage = "defaults" -> "returned"

\* Entries of the services and tests lists of the template files drawn.
\* The template T_TWO declares two services of one name.
Name(n) == KV("name", StrV(<<n>>))
Cwd(text) == KV("cwd", StrV(text))
SVC_BACKEND == MapV(<<Name("backend"), Cwd(<<"backend">>), KV("port", IntV("5000"))>>)
SVC_BACKEND_API == MapV(<<Name("backend"), Cwd(<<"backend", "api">>)>>)
SVC_FRONTEND == MapV(<<Name("frontend"), Cwd(<<"frontend">>), KV("disabled", BoolV(FALSE))>>)
SVC_MOCK == MapV(<<Name("mock"), Cwd(<<"backend">>), KV("disabled", BoolV(TRUE))>>)
TEST_API ==
    MapV(<<Name("api"), Cwd(<<"${DIR}">>), KV("type", StrV(<<"junit">>)),
           KV("junit_xml", StrV(<<"backend", "r.xml">>)),
           KV("cmd", ListV(<<StrV(<<"pytest">>), IntV("3")>>))>>)
TEST_UI == MapV(<<Name("ui"), Cwd(<<"frontend">>), KV("note", StrV(<<"${dir}">>))>>)

\* What the template files of an extends list load to (each one a dict).
T_FLASK ==
    MapV(<<KV("vars", MapV(<<KV("DIR", StrV(<<"backend">>)), KV("SLUG", StrV(<<"mine">>))>>)),
           KV("env", MapV(<<KV("MODE", StrV(<<"test">>)), KV("DEBUG", BoolV(TRUE))>>)),
           KV("services", ListV(<<SVC_BACKEND, SVC_MOCK>>)),
           KV("tests", ListV(<<TEST_API>>))>>)
T_REACT ==
    MapV(<<KV("vars", MapV(<<KV("PORT", IntV("3000"))>>)),
           KV("env", MapV(<<KV("MODE", StrV(<<"${PORT}">>))>>)),
           KV("services", ListV(<<SVC_FRONTEND>>)),
           KV("tests", ListV(<<TEST_UI>>)),
           KV("report", StrV(<<"out", "r.json">>))>>)
T_TWO == MapV(<<KV("services", ListV(<<SVC_BACKEND, SVC_BACKEND_API>>))>>)
T_VARS ==
    MapV(<<KV("vars", MapV(<<KV("DIR", StrV(<<"frontend">>))>>)),
           KV("env", StrV(<<"plain">>))>>)
TemplateFiles == {T_FLASK, T_REACT, T_TWO, T_VARS}

\* extends: the lists of up to n template files.
RECURSIVE ExtendsLists(_)
ExtendsLists(n) ==
    IF n = 0 THEN {<<>>}
    ELSE LET shorter == ExtendsLists(n - 1) IN
         shorter \cup {Append(x, tplf) : x \in {y \in shorter : Len(y) = n - 1},
                                         tplf \in TemplateFiles}

\* The keys of the project file, each absent (<<>>) or present.
ProjVars ==
    {<<>>,
     <<KV("vars", MapV(<<KV("DIR", StrV(<<"..", "x">>))>>))>>,
     <<KV("vars", MapV(<<KV("SLUG", StrV(<<"evil">>)), KV("__PROJECT__", StrV(<<"evil">>)),
                         KV("HOME", StrV(<<"backend">>))>>))>>}
OvServices ==
    {<<>>,
     <<KV("services", MapV(<<KV("backend", MapV(<<KV("disabled", BoolV(TRUE))>>))>>))>>,
     <<KV("services", MapV(<<KV("backend", MapV(<<Cwd(<<"${DIR}", "api">>)>>)),
                             KV("ghost", MapV(<<Cwd(<<"frontend">>)>>))>>))>>}
OvTests ==
    {<<>>,
     <<KV("tests", MapV(<<KV("api", MapV(<<Cwd(<<"${HOME}">>)>>))>>))>>,
     <<KV("tests", MapV(<<KV("api", NoneV)>>))>>}
OvAddTests ==
    {<<>>,
     <<KV("add_tests",
          ListV(<<MapV(<<Name("extra"), Cwd(<<"${DIR}">>), KV("port", StrV(<<"${PORT}">>))>>),
                  MapV(<<Name("off"), KV("disabled", StrV(<<"yes">>))>>),
                  MapV(<<Name("last"), Cwd(<<"backend", "${SLUG}">>),
                         KV("label", StrV(<<"${UNSET}">>))>>)>>))>>}
OvFreeForm ==
    {<<>>, <<KV("env", MapV(<<KV("MODE", StrV(<<"${__PROJECT__}">>))>>))>>}

\* proj_cfg: what the project file loads to.
ProjectConfigs ==
    {MapV(pv \o <<KV("overrides", MapV(os \o ot \o oa \o of))>>) :
        pv \in ProjVars, os \in OvServices, ot \in OvTests, oa \in OvAddTests,
        of \in OvFreeForm}

\* os.environ.
Environs ==
    {EmptyMap,
     MapV(<<KV("HOME", StrV(<<"", "root">>)), KV("DIR", StrV(<<"frontend">>)),
            KV("PORT", StrV(<<"80">>))>>)}

\* Line 423: bf of `for bf in base_files`, loaded.
NextBaseReversed(extends, i) == extends[Len(extends) - i]
NextBase(extends, i) == extends[i + 1]

\* No call of load_and_compose_test_config is looked into.
LoadIdle ==
    /\ ld_pc = "idle"
    /\ ld_exc = "none"
    /\ ld_extends = <<>>
    /\ ld_proj = NoneV
    /\ ld_env = NoneV
    /\ ld_i = 0
    /\ ld_merged = NoneV
    /\ ld_vars = NoneV
    /\ ld_extended = NoneV
    /\ ld_unresolved = NoneV

\* ------------------------------------------------ deep_merge: data
\* The values a call of deep_merge is given: scalars, lists, and dicts of up
\* to two levels whose keys overlap.
MergeValues ==
    {NoneV, StrV(<<"x">>), IntV("1"),
     ListV(<<StrV(<<"a">>)>>), ListV(<<StrV(<<"b">>), StrV(<<"c">>)>>),
     EmptyMap,
     MapV(<<KV("mode", StrV(<<"test">>))>>),
     MapV(<<KV("port", IntV("1")), KV("mode", StrV(<<"dev">>))>>),
     MapV(<<KV("mode", NoneV)>>),
     MapV(<<KV("env", MapV(<<KV("mode", StrV(<<"test">>))>>))>>),
     MapV(<<KV("env", MapV(<<KV("mode", StrV(<<"dev">>)), KV("debug", BoolV(TRUE))>>)),
            KV("port", IntV("1"))>>),
     MapV(<<KV("env", StrV(<<"x">>))>>),
     MapV(<<KV("env", ListV(<<StrV(<<"a">>)>>)), KV("mode", ListV(<<StrV(<<"b">>)>>))>>),
     MapV(<<KV("env", EmptyMap)>>)}

\* No call of deep_merge is looked into.
MergeIdle ==
    /\ dm_pc = "idle"
    /\ dm_a = NoneV
    /\ dm_b = NoneV
    /\ dm_out = NoneV

\* ------------------------------------------------ hydrate_files_from_stack_dir
\* How many entries the directory of a template has.
MaxDisk == 2

\* line 159: at most this many editable files are defaulted.
MaxEditable == 30

\* One entry below the directory of the template: a readable text file, a file
\* that is no UTF-8 text, or a directory.
Entry(sub, rel, kind, text) == [sub |-> sub, rel |-> rel, kind |-> kind, text |-> text]
DiskEntries ==
    {Entry("backend", "backend/app.py", "text", StrV(<<"disk app">>)),
     Entry("backend", "backend/README.md", "text", StrV(<<"disk readme">>)),
     Entry("backend", "backend/logo.png", "binary", NoneV),
     Entry("backend", "backend/pkg", "dir", NoneV),
     Entry("frontend", "frontend/index.html", "text", StrV(<<"disk index">>)),
     Entry("docs", "docs/notes.md", "text", StrV(<<"disk notes">>))}

\* The directories of at most n entries, in the order rglob yields them.
RECURSIVE Disks(_)
Disks(n) ==
    IF n = 0 THEN {<<>>}
    ELSE Disks(n - 1) \cup
         {Append(d, e) : d \in {x \in Disks(n - 1) : Len(x) = n - 1},
                         e \in DiskEntries}

NoTwice(d) == \A i, j \in 1..Len(d) : d[i].rel = d[j].rel => i = j

\* tpl["files"] and tpl["editable_files"] as a template file gives them.
TplFiles ==
    {NoneV,
     EmptyMap,
     MapV(<<KV("backend/app.py", StrV(<<"yaml app">>))>>),
     MapV(<<KV("backend/app.py", StrV(<<"yaml app">>)),
            KV("Dockerfile", StrV(<<"yaml docker">>))>>),
     MapV(<<KV("frontend/index.html", StrV(<<"">>))>>)}

TplEditable == {NoneV, EmptyList, ListV(<<KV("", StrV(<<"backend/app.py">>))>>)}

\* lines 136-140: what the two rglob loops visit, backend first.
Visited(disk) ==
    SelectSeq(disk.entries, LAMBDA e : e.sub = "backend")
        \o SelectSeq(disk.entries, LAMBDA e : e.sub = "frontend")

\* Variant: a discovered file replaces the file of the same key.
RECURSIVE merge_discovered_overwrites(_, _)
merge_discovered_overwrites(existing, discovered) ==
    IF discovered = <<>> THEN existing
    ELSE merge_discovered_overwrites(
             Put(existing, Head(discovered).k, Head(discovered).v), Tail(discovered))

\* lines 151-152: for k, v in discovered.items(): existing.setdefault(k, v).
RECURSIVE merge_discovered(_, _)
merge_discovered(existing, discovered) ==
    IF discovered = <<>> THEN existing
    ELSE merge_discovered(
             setdefault(existing, Head(discovered).k, Head(discovered).v),
             Tail(discovered))

\* line 158: k.endswith((".py", ".js", ".ts", ".tsx", ".html", ".css")).
EditableKey(k) == k \in {"backend/app.py", "frontend/index.html"}

\* lines 156-159: the editable files defaulted from the keys of existing.
default_editable(existing) ==
    LET keys == SelectSeq([i \in 1..Len(existing.items) |-> existing.items[i].k],
                          EditableKey)
    IN  ListV([i \in 1..(IF Len(keys) < MaxEditable THEN Len(keys) ELSE MaxEditable)
                  |-> KV("", StrV(<<keys[i]>>))])

\* lines 133 and 151-159: tpl after the merge.
hydrated(tpl, discovered) ==
    LET existing == merge_discovered(
                        IF Truthy(tpl.files) THEN tpl.files ELSE EmptyMap,
                        discovered.items)
    IN  IF ~Truthy(existing) THEN tpl
        ELSE [files |-> existing,
              editable_files |-> IF Truthy(tpl.editable_files) THEN tpl.editable_files
                                 ELSE default_editable(existing)]

\* No call of hydrate_files_from_stack_dir is looked into.
HydrateIdle ==
    /\ hy_pc = "idle"
    /\ hy_tpl = [files |-> NoneV, editable_files |-> NoneV]
    /\ hy_disk = [exists |-> FALSE, entries |-> <<>>]
    /\ hy_i = 0
    /\ hy_discovered = EmptyMap
    /\ hy_out = [files |-> NoneV, editable_files |-> NoneV]

\* No call of a single function is looked into.
CallsIdle ==
    /\ MatchIdle
    /\ MergeIdle
    /\ LoadIdle
    /\ HydrateIdle

\* ---------------------------------------------------------------- Init
Init ==
    /\ pc = "start_services"
    /\ cfg \in [services: 0..MaxServices, tests: 0..MaxTests]
    /\ max_wait_override \in MaxServiceWaitArgs
    /\ svc = NoSvc
    /\ elapsed = 0
    /\ procs = <<>>
    /\ svc_meta = <<>>
    /\ ok_services = FALSE
    /\ tcfg = NoTest
    /\ icmd = 0
    /\ attempt = 0
    /\ children = {}
    /\ results = <<>>
    /\ all_ok = TRUE
    /\ overall_passed = FALSE
    /\ exc = "none"
    /\ report = NoReport
    /\ report_file = Untouched
    /\ exit_code = {}
    /\ stops = <<>>
    /\ installs = <<>>
    /\ attempts = NoAttempts
    /\ last_how = "none"
    /\ last_parse = "none"
    /\ proc_did = "none"
    /\ RepairIdle
    /\ ComposeIdle
    /\ ResolveIdle
    /\ GenIdle
    /\ InferIdle
    /\ CallsIdle

\* ------------------------------------------------------- start_services
\* An exception raised inside start_services leaves main: the call is made
\* before main's try block (line 362), so no finally clause runs.
RaiseInStartServices(e) ==
    /\ pc' = "raised"
    /\ exc' = e
    /\ max_wait_override' = 0
    /\ exit_code' = {1}
    /\ UNCHANGED <<cfg, svc_meta, ok_services, overall_passed, report, report_file, stops>>
    /\ UNCHANGED testVars

\* lines 118-146: read the next service, check its command, launch it.
StartService ==
    /\ pc = "start_services"
    /\ UNCHANGED sideVars
    /\ Len(svc_meta) < cfg.services
    /\ proc_did' = "none"
    /\ \E s \in ServiceCfgs, launched \in BOOLEAN :
         IF to_cmd_list_raises(s.start)
         THEN /\ RaiseInStartServices("ValueError")
              /\ UNCHANGED <<svc, elapsed, procs>>
         ELSE IF ~launched
         THEN /\ RaiseInStartServices("OSError")
              /\ UNCHANGED <<svc, elapsed, procs>>
         ELSE /\ svc' = s
              /\ elapsed' = 0
              /\ procs' = Append(procs, [name |-> Len(procs) + 1, alive |-> TRUE])
              /\ pc' = IF s.url THEN "wait_http" ELSE "grace"
              /\ UNCHANGED <<cfg, max_wait_override, svc_meta, ok_services, overall_passed,
                             exc, report, report_file, exit_code, stops>>
              /\ UNCHANGED testVars

\* lines 156-166: record the health of the service; when unhealthy, stop every
\* started service and return (svc_meta, procs, False) to main, whose else
\* branch (line 382) leads to the finally clause.
RecordHealth(healthy) ==
    /\ svc_meta' = Append(svc_meta, [name |-> Len(procs), healthy |-> healthy])
    /\ svc' = NoSvc
    /\ elapsed' = 0
    /\ IF Unhealthy(healthy)
       THEN \E survivors \in SUBSET AliveNames(procs) :
              LET r == stop_services(procs, survivors) IN
                /\ procs' = r.procs
                /\ stops' = Append(stops, r.calls)
                /\ ok_services' = FALSE
                /\ overall_passed' = FALSE
                /\ max_wait_override' = 0
                /\ pc' = "finally"
       ELSE /\ pc' = "start_services"
            /\ UNCHANGED <<max_wait_override, procs, stops, ok_services, overall_passed>>
    /\ UNCHANGED <<cfg, exc, report, report_file, exit_code>>
    /\ UNCHANGED testVars

\* wait_http lines 94-104: one poll made while the timeout has not elapsed.
WaitHttpPoll ==
    /\ pc = "wait_http"
    /\ UNCHANGED <<sideVars, proc_did>>
    /\ elapsed < EffectiveTimeout(svc.timeout_sec, max_wait_override)
    /\ \E outcome \in {"ok", "miss", "URLError", "raise"} :
         CASE outcome = "ok" -> RecordHealth(TRUE)
           [] outcome \in {"miss", "URLError"} ->
                /\ outcome = "miss" => svc.expect
                /\ \E t \in (elapsed + 1)..EffectiveTimeout(svc.timeout_sec, max_wait_override) :
                     elapsed' = t
                /\ UNCHANGED <<pc, cfg, max_wait_override, svc, procs, svc_meta, ok_services,
                               overall_passed, exc, report, report_file, exit_code, stops>>
                /\ UNCHANGED testVars
           [] outcome = "raise" ->
                /\ RaiseInStartServices("Exception")
                /\ UNCHANGED <<svc, elapsed, procs>>

\* wait_http lines 105-108: the timeout elapsed, the service is unhealthy.
WaitHttpTimeout ==
    /\ pc = "wait_http"
    /\ UNCHANGED <<sideVars, proc_did>>
    /\ elapsed >= EffectiveTimeout(svc.timeout_sec, max_wait_override)
    /\ RecordHealth(FALSE)

\* lines 151-154: no healthcheck url, healthy after the grace period.
Grace ==
    /\ pc = "grace"
    /\ UNCHANGED sideVars
    /\ \E did \in ProcDid :
         /\ proc_did' = did
         /\ RecordHealth(GraceHealthy(did))

\* line 166: every declared service was started and is healthy.
StartServicesReturn ==
    /\ pc = "start_services"
    /\ UNCHANGED sideVars
    /\ Len(svc_meta) = cfg.services
    /\ proc_did' = "none"
    /\ ok_services' = StartupOk(svc_meta)
    /\ max_wait_override' = 0
    /\ pc' = IF ok_services' THEN "tests" ELSE "finally"
    /\ UNCHANGED <<cfg, svc, elapsed, procs, svc_meta, overall_passed, exc, report,
                   report_file, exit_code, stops>>
    /\ UNCHANGED testVars

\* ---------------------------------------------------- main / run_one_test
\* An exception raised inside main's try block: the finally clause runs next.
RaiseInTry(e) ==
    /\ pc' = "finally"
    /\ exc' = e

\* main lines 376-378 after run_one_test returned res.  Of the result, results
\* keeps the name, the returncode and the error; its summary is kept for the
\* latest result only, in last_parse.
AppendResult(res) ==
    /\ results' = Append(results, [name |-> CurrentTest, returncode |-> res.returncode,
                                   error |-> res.error])
    /\ all_ok' = AllOk(all_ok, res)
    /\ pc' = "returned"

\* main line 374-375, run_one_test lines 251-257: the next test is read and its
\* cmd checked (before any install command runs).
TestBegin ==
    /\ pc = "tests"
    /\ UNCHANGED sideVars
    /\ MoreTests(results, cfg.tests)
    /\ \E tc \in TestCfgs :
         /\ tcfg' = tc
         /\ icmd' = 1
         /\ attempt' = 0
         /\ installs' = <<>>
         /\ attempts' = NoAttempts
         /\ last_how' = "none"
         /\ last_parse' = "none"
         /\ IF to_cmd_list_raises(tc.cmd)
            THEN RaiseInTry("ValueError")
            ELSE /\ pc' = IF tc.install > 0 THEN "install" ELSE "attempt"
                 /\ exc' = exc
    /\ UNCHANGED <<cfg, procs, children, results, all_ok, overall_passed, report,
                   report_file, exit_code, stops>>
    /\ UNCHANGED svcVars

\* run_one_test lines 262-269: the next install command is checked and launched.
InstallStart ==
    /\ pc = "install"
    /\ UNCHANGED sideVars
    /\ \E kind \in CmdKinds, launched \in BOOLEAN :
         IF to_cmd_list_raises(kind)
         THEN RaiseInTry("ValueError") /\ UNCHANGED children
         ELSE IF ~launched
         THEN RaiseInTry("OSError") /\ UNCHANGED children
         ELSE /\ children' = children \cup
                    {[kind |-> "install", test |-> CurrentTest, n |-> icmd]}
              /\ pc' = "install_run"
              /\ exc' = exc
    /\ UNCHANGED <<cfg, procs, tcfg, icmd, attempt, results, all_ok, overall_passed,
                   report, report_file, exit_code, stops, installs, attempts, last_how,
                   last_parse>>
    /\ UNCHANGED svcVars

\* run_one_test lines 266-275: the install command ended with rc.
InstallEnd ==
    /\ pc = "install_run"
    /\ UNCHANGED sideVars
    /\ \E rc \in ExitCodes :
         /\ children' = children \ {[kind |-> "install", test |-> CurrentTest, n |-> icmd]}
         /\ installs' = Append(installs, [n |-> icmd, rc |-> rc])
         /\ IF InstallFailed(rc)
            THEN /\ AppendResult([returncode |-> rc, error |-> "install-failed",
                                  summary |-> "install_cmd"])
                 /\ UNCHANGED icmd
            ELSE /\ icmd' = icmd + 1
                 /\ pc' = IF icmd < tcfg.install THEN "install" ELSE "attempt"
                 /\ UNCHANGED <<results, all_ok>>
    /\ UNCHANGED <<cfg, procs, tcfg, attempt, overall_passed, exc, report, report_file,
                   exit_code, stops, attempts, last_how, last_parse>>
    /\ UNCHANGED svcVars

\* run_one_test lines 303-332: the attempt numbered att ended with rc.
\* The result of an attempt that is retried is dropped.
AttemptEnd(how, rc, att) ==
    /\ attempts' = [n |-> attempts.n + 1, rc |-> rc]
    /\ last_how' = how
    /\ IF ReturnsResult(rc, att, tcfg.retries)
       THEN \E p \in Parses(rc) :
              /\ AppendResult(p.result)
              /\ last_parse' = p.found
       ELSE /\ pc' = "attempt"
            /\ last_parse' = "none"
            /\ UNCHANGED <<results, all_ok>>

\* run_one_test lines 280-301: the next attempt; Popen starts the test process or
\* raises (FileNotFoundError -> 127, any other Exception -> 1).
AttemptStart ==
    /\ pc = "attempt"
    /\ UNCHANGED sideVars
    /\ attempt' = attempt + 1
    /\ \E popen \in {"started", "FileNotFoundError", "Exception"} :
         CASE popen = "started" ->
                /\ children' = children \cup
                      {[kind |-> "test", test |-> CurrentTest, n |-> attempt + 1]}
                /\ pc' = "communicate"
                /\ UNCHANGED <<results, all_ok, attempts, last_how, last_parse>>
           [] popen = "FileNotFoundError" ->
                /\ AttemptEnd("FileNotFoundError", NOTFOUND_RC, attempt + 1)
                /\ UNCHANGED children
           [] popen = "Exception" ->
                /\ AttemptEnd("Exception", ERROR_RC, attempt + 1)
                /\ UNCHANGED children
    /\ UNCHANGED <<cfg, procs, tcfg, icmd, overall_passed, exc, report, report_file,
                   exit_code, stops, installs>>
    /\ UNCHANGED svcVars

\* run_one_test lines 291, 296-297: the test process exited by itself.
AttemptExit ==
    /\ pc = "communicate"
    /\ UNCHANGED sideVars
    /\ \E rc \in ExitCodes :
         /\ children' = children \ {[kind |-> "test", test |-> CurrentTest, n |-> attempt]}
         /\ AttemptEnd("exit", rc, attempt)
    /\ UNCHANGED <<cfg, procs, tcfg, icmd, attempt, overall_passed, exc, report,
                   report_file, exit_code, stops, installs>>
    /\ UNCHANGED svcVars

\* run_one_test lines 292-295: the timeout expired with the process still running.
AttemptTimeout ==
    /\ pc = "communicate"
    /\ UNCHANGED sideVars
    /\ TimeoutArmed(tcfg.timeout_sec)
    /\ children' = KillChild(children, [kind |-> "test", test |-> CurrentTest, n |-> attempt])
    /\ AttemptEnd("timeout", TIMEOUT_RC, attempt)
    /\ UNCHANGED <<cfg, procs, tcfg, icmd, attempt, overall_passed, exc, report,
                   report_file, exit_code, stops, installs>>
    /\ UNCHANGED svcVars

\* main line 374, back at the head of the loop after a result was appended: the
\* locals of the run_one_test call, and the history kept of it, are gone.
TestReturn ==
    /\ pc = "returned"
    /\ UNCHANGED sideVars
    /\ pc' = "tests"
    /\ tcfg' = NoTest
    /\ icmd' = 0
    /\ attempt' = 0
    /\ installs' = <<>>
    /\ attempts' = NoAttempts
    /\ last_how' = "none"
    /\ last_parse' = "none"
    /\ UNCHANGED <<cfg, procs, children, results, all_ok, overall_passed, exc, report,
                   report_file, exit_code, stops>>
    /\ UNCHANGED svcVars

\* main line 379: every declared test has a result.
TestsDone ==
    /\ pc = "tests"
    /\ UNCHANGED sideVars
    /\ ~MoreTests(results, cfg.tests)
    /\ overall_passed' = all_ok
    /\ pc' = "finally"
    /\ UNCHANGED <<cfg, procs, exc, report, report_file, exit_code, stops>>
    /\ UNCHANGED svcVars
    /\ UNCHANGED testVars

\* main lines 383-384: finally: stop_services(procs); a pending exception then
\* propagates out of main.
MainFinally ==
    /\ pc = "finally"
    /\ UNCHANGED sideVars
    /\ \E survivors \in SUBSET AliveNames(procs) :
         LET r == stop_services(procs, survivors) IN
           /\ procs' = r.procs
           /\ stops' = Append(stops, r.calls)
    /\ pc' = IF exc = "none" THEN "report" ELSE "raised"
    /\ exit_code' = IF exc = "none" THEN exit_code ELSE {1}
    /\ UNCHANGED <<cfg, overall_passed, exc, report, report_file>>
    /\ UNCHANGED svcVars
    /\ UNCHANGED testVars

\* main lines 386-417: the report is built, written to the report path when one
\* is configured (an error of the write is swallowed), printed on stdout, and the
\* process exits.  path_set: cfg has a report path; prior: what the path held
\* before; write_ok: write_text succeeded.
MainReport ==
    /\ pc = "report"
    /\ UNCHANGED sideVars
    /\ report' = [emitted |-> TRUE, timestamp |-> "now", project |-> "project",
                  overall_passed |-> overall_passed,
                  services |-> svc_meta, results |-> results]
    /\ report_file' \in {write_report(report', path_set, prior, write_ok) :
                            path_set \in BOOLEAN, prior \in PriorFiles, write_ok \in BOOLEAN}
    /\ exit_code' = {ExitCode(overall_passed)}
    /\ pc' = "done"
    /\ UNCHANGED <<cfg, procs, overall_passed, exc, stops>>
    /\ UNCHANGED svcVars
    /\ UNCHANGED testVars

Next ==
    \/ StartService
    \/ WaitHttpPoll
    \/ WaitHttpTimeout
    \/ Grace
    \/ StartServicesReturn
    \/ TestBegin
    \/ InstallStart
    \/ InstallEnd
    \/ AttemptStart
    \/ AttemptExit
    \/ AttemptTimeout
    \/ TestReturn
    \/ TestsDone
    \/ MainFinally
    \/ MainReport

Spec == Init /\ [][Next]_vars

\* ====================================================================
\* repair_loop_if_needed (generate_content.py lines 760-778).  One behaviour
\* is one call; each orchestrator run is seen through the (ok, report) that
\* run_tests_with_config hands back.
\* ====================================================================
\* No orchestrator run is looked into.
OrchIdle ==
    /\ pc = "idle"
    /\ cfg = [services |-> 0, tests |-> 0]
    /\ max_wait_override = 0
    /\ svc = NoSvc
    /\ elapsed = 0
    /\ procs = <<>>
    /\ svc_meta = <<>>
    /\ ok_services = FALSE
    /\ tcfg = NoTest
    /\ icmd = 0
    /\ attempt = 0
    /\ children = {}
    /\ results = <<>>
    /\ all_ok = TRUE
    /\ overall_passed = FALSE
    /\ exc = "none"
    /\ report = NoReport
    /\ report_file = Untouched
    /\ exit_code = {}
    /\ stops = <<>>
    /\ installs = <<>>
    /\ attempts = NoAttempts
    /\ last_how = "none"
    /\ last_parse = "none"
    /\ proc_did = "none"

InitRepair ==
    /\ OrchIdle
    /\ ComposeIdle
    /\ ResolveIdle
    /\ GenIdle
    /\ InferIdle
    /\ CallsIdle
    /\ rl_pc = "first_run"
    /\ allowed_rel \in SUBSET Paths
    /\ rl_ok = FALSE
    /\ rl_report = ReportHead(ErrorReport)
    /\ tries = 0
    /\ target = "both"
    /\ rl_ret = FALSE
    /\ rl_file \in FileStates
    /\ llm = NoAnswer
    /\ written = {}
    /\ touched = {}
    /\ events = <<>>

\* run_tests_with_config lines 658-688: the orchestrator process ran and ended
\* with outcome, its write of the report succeeded or not; (ok, data) is
\* returned, ok is bool(data.get("overall_passed")).
RunReturns(outcome, write_ok) ==
    LET file == file_after_run(rl_file, outcome, write_ok)
        data == handed_report(file, outcome)
    IN  /\ rl_file' = file
        /\ rl_ok' = data.overall_passed
        /\ rl_report' = data
        /\ events' = Append(events, CASE outcome = "pass" -> "run:pass"
                                       [] outcome = "fail" -> "run:fail"
                                       [] OTHER -> "run:crash")

\* run_tests_with_config raised: the composition of the plan failed (line 661),
\* or the report read is not a JSON object (line 687).
RunRaises ==
    /\ rl_pc' = "raised"
    /\ events' = Append(events, "run:raise")
    /\ UNCHANGED <<rl_ok, rl_report, rl_file>>

\* repair_loop_if_needed lines 761-764: the first run; `if ok: return True`.
FirstRun ==
    /\ rl_pc = "first_run"
    /\ \/ \E outcome \in Outcomes, write_ok \in BOOLEAN :
            /\ RunReturns(outcome, write_ok)
            /\ rl_pc' = IF rl_ok' THEN "returned" ELSE "loop"
            /\ rl_ret' = rl_ok'
       \/ RunRaises /\ UNCHANGED rl_ret
    /\ UNCHANGED <<allowed_rel, tries, target, llm, written, touched>>
    /\ UNCHANGED nonRepairVars

\* repair_loop_if_needed lines 765-768: the loop test, tries += 1, the target.
LoopHead ==
    /\ rl_pc = "loop"
    /\ IF LoopContinues(rl_ok, tries)
       THEN /\ tries' = tries + 1
            /\ target' \in {infer_failure_target(rep) : rep \in ReportsWith(rl_report)}
            /\ rl_pc' = "repair"
       ELSE /\ rl_pc' = "exit"
            /\ UNCHANGED <<tries, target>>
    /\ UNCHANGED <<allowed_rel, rl_ok, rl_report, rl_ret, rl_file, llm, written, touched, events>>
    /\ UNCHANGED nonRepairVars

\* llm_repair_once lines 711-758 and lines 769-772 of the loop.  ans is the
\* answer of the generator.  write() of a value that is not a string raises
\* TypeError after the file was opened for writing; files written before it stay.
Repair ==
    /\ rl_pc = "repair"
    /\ \E ans \in LlmAnswers :
         LET accepted == Accepted(ans, subset(allowed_rel, target)) IN
         /\ llm' = ans
         /\ IF accepted # {} /\ ~ans.strings
            THEN /\ \E w \in (SUBSET accepted) \ {{}} :
                      /\ written' = w
                      /\ touched' = touched \cup w
                 /\ events' = Append(events, "fix:raise")
                 /\ rl_pc' = "raised"
            ELSE /\ written' = accepted
                 /\ touched' = touched \cup accepted
                 /\ events' = Append(events, IF accepted # {} THEN "fix:changed"
                                                              ELSE "fix:none")
                 /\ rl_pc' = IF NoChange(accepted # {}) THEN "exit" ELSE "rerun"
    /\ UNCHANGED <<allowed_rel, rl_ok, rl_report, tries, target, rl_ret, rl_file>>
    /\ UNCHANGED nonRepairVars

\* repair_loop_if_needed line 773: the rerun after a cycle that changed files.
Rerun ==
    /\ rl_pc = "rerun"
    /\ \/ \E outcome \in Outcomes, write_ok \in BOOLEAN :
            /\ RunReturns(outcome, write_ok)
            /\ rl_pc' = "loop"
       \/ RunRaises
    /\ UNCHANGED <<allowed_rel, tries, target, rl_ret, llm, written, touched>>
    /\ UNCHANGED nonRepairVars

\* repair_loop_if_needed lines 774-778: `return ok`.
LoopReturn ==
    /\ rl_pc = "exit"
    /\ rl_ret' = rl_ok
    /\ rl_pc' = "returned"
    /\ UNCHANGED <<allowed_rel, rl_ok, rl_report, tries, target, rl_file, llm, written,
                   touched, events>>
    /\ UNCHANGED nonRepairVars

NextRepair ==
    \/ FirstRun
    \/ LoopHead
    \/ Repair
    \/ Rerun
    \/ LoopReturn

SpecRepair == InitRepair /\ [][NextRepair]_vars

\* Every call the loop makes returns or raises: the orchestrator process ends,
\* the fix generator answers.
SpecRepairLive == SpecRepair /\ WF_vars(NextRepair)

\* ====================================================================
\* _expand_project_paths (generate_content.py lines 381-410), the last stage
\* of load_and_compose_test_config.  One behaviour is one call on one plan.
\* ====================================================================
InitCompose ==
    /\ OrchIdle
    /\ RepairIdle
    /\ ResolveIdle
    /\ GenIdle
    /\ InferIdle
    /\ CallsIdle
    /\ cp_pc = "expand"
    /\ cp_in \in Plans
    /\ cp_out = NoPlan
    /\ cp_again = NoPlan

ExpandReturns ==
    /\ cp_pc = "expand"
    /\ ~expand_project_paths_raises(cp_in)
    /\ cp_out' = expand_project_paths(cp_in)
    /\ cp_pc' = "returned"
    /\ UNCHANGED <<cp_in, cp_again>>
    /\ UNCHANGED nonComposeVars

ExpandRaises ==
    /\ cp_pc = "expand"
    /\ expand_project_paths_raises(cp_in)
    /\ cp_pc' = "raised"
    /\ UNCHANGED <<cp_in, cp_out, cp_again>>
    /\ UNCHANGED nonComposeVars

\* A second call with the same slug, on the plan the first call returned.
ExpandAgainReturns ==
    /\ cp_pc = "returned"
    /\ ~expand_project_paths_raises(cp_out)
    /\ cp_again' = expand_project_paths(cp_out)
    /\ cp_pc' = "returned_again"
    /\ UNCHANGED <<cp_in, cp_out>>
    /\ UNCHANGED nonComposeVars

ExpandAgainRaises ==
    /\ cp_pc = "returned"
    /\ expand_project_paths_raises(cp_out)
    /\ cp_pc' = "raised_again"
    /\ UNCHANGED <<cp_in, cp_out, cp_again>>
    /\ UNCHANGED nonComposeVars

NextCompose ==
    \/ ExpandReturns
    \/ ExpandRaises
    \/ ExpandAgainReturns
    \/ ExpandAgainRaises

SpecCompose == InitCompose /\ [][NextCompose]_vars

\* ====================================================================
\* load_or_autogen_template (generate_content.py lines 287-332).  One
\* behaviour is one call for one kind on one template directory.  Of a
\* template the model keeps detect, services and tests; hydration adds
\* files next to them and scan_templates adds name and __path.
\* ====================================================================
InitResolve ==
    /\ OrchIdle
    /\ RepairIdle
    /\ ComposeIdle
    /\ GenIdle
    /\ InferIdle
    /\ CallsIdle
    /\ rs_pc = "choose"
    /\ rs_name \in NameArgs
    /\ rs_topic \in Topics
    /\ storage \in Storages
    /\ storage0 = storage
    /\ rs_chosen = NoName
    /\ rs_tpl = NoTemplate
    /\ rs_ret = NoTemplate
    /\ rs_how = "none"

\* lines 293-306 and 321-332: take the template of folder n from the registry
\* scanned from st, hydrate it (reading the files of the folder can raise),
\* validate it, return it.
LoadStored(st, n) ==
    \E hydrate_ok \in BOOLEAN :
        IF n \notin scan_templates(st) \/ ~hydrate_ok \/ validate_template_raises(st[n])
        THEN /\ rs_pc' = "raised"
             /\ rs_ret' = NoTemplate
        ELSE /\ rs_pc' = "returned"
             /\ rs_ret' = st[n]

\* lines 288-306: scan the registry, choose, and return the chosen template
\* when it is in the registry.
ResolveChoose ==
    /\ rs_pc = "choose"
    /\ \E c \in Chosen(rs_name, storage, rs_topic) :
         /\ rs_chosen' = c
         /\ IF c # NoName /\ c \in scan_templates(storage)
            THEN /\ rs_how' = IF rs_name # NoName THEN "named" ELSE "matched"
                 /\ LoadStored(storage, c)
            ELSE /\ rs_how' = "autogen"
                 /\ rs_pc' = "autogen"
                 /\ rs_ret' = NoTemplate
    /\ UNCHANGED <<rs_name, rs_topic, storage, storage0, rs_tpl>>
    /\ UNCHANGED nonResolveVars

\* line 309, autogen_template lines 266-284: the generator answers, the answer
\* is parsed and validated.
ResolveAutogen ==
    /\ rs_pc = "autogen"
    /\ \E raw \in LlmTemplates :
         IF autogen_template_raises(raw)
         THEN /\ rs_pc' = "raised"
              /\ rs_how' = "autogen-failed"
              /\ UNCHANGED rs_tpl
         ELSE /\ rs_pc' = "save"
              /\ rs_tpl' = raw
              /\ UNCHANGED rs_how
    /\ UNCHANGED <<rs_name, rs_topic, storage, storage0, rs_chosen, rs_ret>>
    /\ UNCHANGED nonResolveVars

\* lines 311-332: name the new template, save it, scan again and return what
\* the registry now holds under that name.
ResolveSave ==
    /\ rs_pc = "save"
    /\ \E outcome \in WriteOutcomes :
         LET n == base_name(rs_name, rs_topic)
             st == save_template(storage, n, rs_tpl, outcome)
         IN  /\ storage' = st
             /\ IF outcome # "ok"
                THEN /\ rs_pc' = "raised"
                     /\ rs_ret' = NoTemplate
                ELSE LoadStored(st, n)
    /\ UNCHANGED <<rs_name, rs_topic, storage0, rs_chosen, rs_tpl, rs_how>>
    /\ UNCHANGED nonResolveVars

NextResolve ==
    \/ ResolveChoose
    \/ ResolveAutogen
    \/ ResolveSave

SpecResolve == InitResolve /\ [][NextResolve]_vars

\* ====================================================================
\* main of generate_content.py (lines 825-907).  One behaviour is one run;
\* each function main calls is seen through what it returns or raises.
\* ====================================================================
InitGen ==
    /\ OrchIdle
    /\ RepairIdle
    /\ ComposeIdle
    /\ ResolveIdle
    /\ InferIdle
    /\ CallsIdle
    /\ gm_pc = "resolve"
    /\ gm_args \in GenArgs
    /\ gm_ok = FALSE
    /\ gm_calls = <<>>

\* main calls fs, the last of which raises or returns; main goes on at next.
GenCall(fs, next) ==
    /\ gm_calls' = gm_calls \o fs
    /\ \E raised \in BOOLEAN : gm_pc' = IF raised THEN "raised" ELSE next
    /\ UNCHANGED gm_args
    /\ UNCHANGED nonGenVars

\* main calls run_tests_with_config at position p and keeps its verdict.
GenRunTests(p) ==
    /\ gm_calls' = Append(gm_calls, "run_tests_with_config")
    /\ \E r \in {"pass", "fail", "raise"} :
         IF r = "raise"
         THEN /\ gm_pc' = "raised"
              /\ UNCHANGED gm_ok
         ELSE /\ gm_ok' = (r = "pass")
              /\ gm_pc' = IF p = "initial_tests" /\ DryRunReturns(gm_args)
                          THEN "returned"
                          ELSE AfterTests(p, r = "pass", gm_args)
    /\ UNCHANGED gm_args
    /\ UNCHANGED nonGenVars

\* lines 852-855: both templates are resolved.
GenResolve ==
    /\ gm_pc = "resolve"
    /\ GenCall(<<"route_template", "route_template">>,
               IF Scaffolds(gm_args) THEN "scaffold" ELSE "modes")
    /\ UNCHANGED gm_ok

\* lines 859-862: compose the stack, fill the snippets.
GenScaffold ==
    /\ gm_pc = "scaffold"
    /\ GenCall(<<"compose_stack", "scaffold_snippets_generic", "fill_snippets_from_code">>,
               "initial_tests")
    /\ UNCHANGED gm_ok

\* lines 864-877: the initial test run, then the dry-run exit.
GenInitialTests ==
    /\ gm_pc = "initial_tests"
    /\ GenRunTests("initial_tests")

\* lines 880-882: the repair loop after the initial tests failed.
GenRepair ==
    /\ gm_pc = "repair"
    /\ GenCall(<<"repair_loop_if_needed">>, AfterTests("repair", gm_ok, gm_args))
    /\ UNCHANGED gm_ok

\* line 886: the customization by the generator.
GenCustomize ==
    /\ gm_pc = "customize"
    /\ GenCall(<<"llm_customize_in_place">>, "retest")
    /\ UNCHANGED gm_ok

\* lines 887-888: the tests after the customization.
GenRetest ==
    /\ gm_pc = "retest"
    /\ GenRunTests("retest")

\* lines 889-890: the repair loop after the customized code failed its tests.
GenRepairAgain ==
    /\ gm_pc = "repair_again"
    /\ GenCall(<<"repair_loop_if_needed">>, "modes")
    /\ UNCHANGED gm_ok

\* lines 892-907: content, verify, and both in mode all; a failed verify in
\* mode verify exits with status 1.
GenModes ==
    /\ gm_pc = "modes"
    /\ CASE gm_args.mode = "content" -> GenCall(<<"generate_content">>, "returned")
         [] gm_args.mode = "verify" ->
              \E ok \in BOOLEAN :
                  GenCall(<<"run_verify_and_maybe_copy">>, IF ok THEN "returned" ELSE "exited")
         [] gm_args.mode = "all" ->
              GenCall(<<"generate_content", "run_verify_and_maybe_copy">>, "returned")
         [] OTHER -> GenCall(<<>>, "returned")
    /\ UNCHANGED gm_ok

NextGen ==
    \/ GenResolve
    \/ GenScaffold
    \/ GenInitialTests
    \/ GenRepair
    \/ GenCustomize
    \/ GenRetest
    \/ GenRepairAgain
    \/ GenModes

SpecGen == InitGen /\ [][NextGen]_vars

\* ====================================================================
\* infer_failure_target (generate_content.py lines 690-703).  One behaviour
\* is one call on one report.
\* ====================================================================
InitInfer ==
    /\ OrchIdle
    /\ RepairIdle
    /\ ComposeIdle
    /\ ResolveIdle
    /\ GenIdle
    /\ CallsIdle
    /\ if_pc = "infer"
    /\ if_report \in InferReports
    /\ if_target = "both"

Infer ==
    /\ if_pc = "infer"
    /\ if_target' = infer_failure_target(if_report)
    /\ if_pc' = "returned"
    /\ UNCHANGED if_report
    /\ UNCHANGED nonInferVars

NextInfer == Infer

SpecInfer == InitInfer /\ [][NextInfer]_vars

\* ====================================================================
\* best_match_by_topic (generate_content.py lines 210-218).  One behaviour is
\* one call; one step is one iteration of its loop over reg.items().
\* ====================================================================
InitMatch ==
    /\ OrchIdle
    /\ RepairIdle
    /\ ComposeIdle
    /\ ResolveIdle
    /\ GenIdle
    /\ InferIdle
    /\ MergeIdle
    /\ LoadIdle
    /\ HydrateIdle
    /\ bm_pc = "loop"
    /\ bm_reg \in {r \in Registries(MaxTemplates) : DistinctNames(r)}
    /\ bm_topic \in MatchTopics
    /\ bm_i = 0
    /\ bm_best = NoName
    /\ bm_score = 0

\* lines 213-217: the next (name, tpl) of reg.items().
MatchNext ==
    /\ bm_pc = "loop"
    /\ bm_i < Len(bm_reg)
    /\ LET tpl == bm_reg[bm_i + 1]
           s == sc(tpl.detect, LowerTopic(bm_topic))
       IN  IF Better(s, bm_score)
           THEN bm_best' = tpl.name /\ bm_score' = s
           ELSE UNCHANGED <<bm_best, bm_score>>
    /\ bm_i' = bm_i + 1
    /\ UNCHANGED <<bm_pc, bm_reg, bm_topic>>
    /\ UNCHANGED nonMatchVars

\* line 218: return best.
MatchReturn ==
    /\ bm_pc = "loop"
    /\ bm_i = Len(bm_reg)
    /\ bm_pc' = "returned"
    /\ UNCHANGED <<bm_reg, bm_topic, bm_i, bm_best, bm_score>>
    /\ UNCHANGED nonMatchVars

NextMatch ==
    \/ MatchNext
    \/ MatchReturn

SpecMatch == InitMatch /\ [][NextMatch]_vars

\* ====================================================================
\* deep_merge (generate_content.py lines 349-355).  One behaviour is one call.
\* ====================================================================
InitMerge ==
    /\ OrchIdle
    /\ RepairIdle
    /\ ComposeIdle
    /\ ResolveIdle
    /\ GenIdle
    /\ InferIdle
    /\ MatchIdle
    /\ LoadIdle
    /\ HydrateIdle
    /\ dm_pc = "called"
    /\ dm_a \in MergeValues
    /\ dm_b \in MergeValues
    /\ dm_out = NoneV

\* lines 350-354: both are dicts.
MergeMaps ==
    /\ dm_pc = "called"
    /\ dm_a.t = "map" /\ dm_b.t = "map"
    /\ dm_out' = deep_merge(dm_a, dm_b)
    /\ dm_pc' = "returned"
    /\ UNCHANGED <<dm_a, dm_b>>
    /\ UNCHANGED nonMergeVars

\* line 355: one of them is no dict.
MergeReplaces ==
    /\ dm_pc = "called"
    /\ ~(dm_a.t = "map" /\ dm_b.t = "map")
    /\ dm_out' = deep_merge(dm_a, dm_b)
    /\ dm_pc' = "returned"
    /\ UNCHANGED <<dm_a, dm_b>>
    /\ UNCHANGED nonMergeVars

NextMerge ==
    \/ MergeMaps
    \/ MergeReplaces

SpecMerge == InitMerge /\ [][NextMerge]_vars

\* ====================================================================
\* load_and_compose_test_config (generate_content.py lines 412-448).  One
\* behaviour is one call with slug p; one step is one stage, or one template
\* of the extends list.
\* ====================================================================
InitLoad ==
    /\ OrchIdle
    /\ RepairIdle
    /\ ComposeIdle
    /\ ResolveIdle
    /\ GenIdle
    /\ InferIdle
    /\ MatchIdle
    /\ MergeIdle
    /\ HydrateIdle
    /\ ld_pc = "extend"
    /\ ld_exc = "none"
    /\ ld_extends \in ExtendsLists(MaxExtends)
    /\ ld_proj \in ProjectConfigs
    /\ ld_env \in Environs
    /\ ld_i = 0
    /\ ld_merged = MapV(<<KV("version", IntV("1")), KV("project", Slug)>>)
    /\ ld_vars = NoneV
    /\ ld_extended = NoneV
    /\ ld_unresolved = NoneV

LoadRaises(e) ==
    /\ ld_pc' = "raised"
    /\ ld_exc' = e
    /\ UNCHANGED <<ld_extends, ld_proj, ld_env, ld_i, ld_merged, ld_vars, ld_extended,
                   ld_unresolved>>

\* lines 422-425: the next template of extends is merged into merged.
LoadExtend ==
    /\ ld_pc = "extend"
    /\ ld_i < Len(ld_extends)
    /\ ld_merged' = deep_merge(ld_merged, NextBase(ld_extends, ld_i))
    /\ ld_i' = ld_i + 1
    /\ UNCHANGED <<ld_pc, ld_exc, ld_extends, ld_proj, ld_env, ld_vars, ld_extended,
                   ld_unresolved>>
    /\ UNCHANGED nonLoadVars

\* line 422: the loop over extends is over.
LoadExtendDone ==
    /\ ld_pc = "extend"
    /\ ld_i = Len(ld_extends)
    /\ ld_extended' = ld_merged
    /\ ld_pc' = StageAfter("extend")
    /\ UNCHANGED <<ld_exc, ld_extends, ld_proj, ld_env, ld_i, ld_merged, ld_vars,
                   ld_unresolved>>
    /\ UNCHANGED nonLoadVars

\* lines 427-430: vars_combined.
LoadVars ==
    /\ ld_pc = "vars"
    /\ ld_vars' = vars_combined(GetOr(ld_merged, "vars", EmptyMap),
                                GetOr(ld_proj, "vars", EmptyMap), Slug)
    /\ ld_pc' = StageAfter("vars")
    /\ UNCHANGED <<ld_exc, ld_extends, ld_proj, ld_env, ld_i, ld_merged, ld_extended,
                   ld_unresolved>>
    /\ UNCHANGED nonLoadVars

\* lines 432-436: the free-form overrides, then the named lists.
LoadOverrides ==
    /\ ld_pc = "overrides"
    /\ LET ov == GetOr(ld_proj, "overrides", EmptyMap)
           m1 == deep_merge(ld_merged, FreeForm(ov))
           m2 == Put(m1, "services",
                     merge_named_list(Get(m1, "services"), Get(ov, "services"), NoneV))
           m3 == Put(m2, "tests",
                     merge_named_list(Get(m2, "tests"), Get(ov, "tests"),
                                      Get(ov, "add_tests")))
       IN  IF \/ merge_named_list_raises(Get(m1, "services"), Get(ov, "services"), NoneV)
              \/ merge_named_list_raises(Get(m1, "tests"), Get(ov, "tests"),
                                         Get(ov, "add_tests"))
           THEN LoadRaises("AttributeError")
           ELSE /\ ld_merged' = m3
                /\ ld_unresolved' = m3
                /\ ld_pc' = StageAfter("overrides")
                /\ UNCHANGED <<ld_exc, ld_extends, ld_proj, ld_env, ld_i, ld_vars,
                               ld_extended>>
    /\ UNCHANGED nonLoadVars

\* line 439: merged = resolve_vars(merged, vars_combined).
LoadResolve ==
    /\ ld_pc = "resolve"
    /\ ld_merged' = resolve_vars(ld_merged, ld_vars, ld_env)
    /\ ld_pc' = StageAfter("resolve")
    /\ UNCHANGED <<ld_exc, ld_extends, ld_proj, ld_env, ld_i, ld_vars, ld_extended,
                   ld_unresolved>>
    /\ UNCHANGED nonLoadVars

\* line 442: merged = _expand_project_paths(merged, slug).
LoadExpand ==
    /\ ld_pc = "expand"
    /\ IF expand_plan_raises(ld_merged)
       THEN LoadRaises("ValueError")
       ELSE /\ ld_merged' = expand_plan(ld_merged)
            /\ ld_pc' = StageAfter("expand")
            /\ UNCHANGED <<ld_exc, ld_extends, ld_proj, ld_env, ld_i, ld_vars,
                           ld_extended, ld_unresolved>>
    /\ UNCHANGED nonLoadVars

\* lines 445-448: the defaults of report and artifacts_dir; return merged.
LoadDefaults ==
    /\ ld_pc = "defaults"
    /\ ld_merged' =
          setdefault(setdefault(ld_merged, "report",
                                StrV(<<"artifacts", "p", "test_report.json">>)),
                     "artifacts_dir", StrV(<<"artifacts", "p">>))
    /\ ld_pc' = StageAfter("defaults")
    /\ UNCHANGED <<ld_exc, ld_extends, ld_proj, ld_env, ld_i, ld_vars, ld_extended,
                   ld_unresolved>>
    /\ UNCHANGED nonLoadVars

NextLoad ==
    \/ LoadExtend
    \/ LoadExtendDone
    \/ LoadVars
    \/ LoadOverrides
    \/ LoadResolve
    \/ LoadExpand
    \/ LoadDefaults

SpecLoad == InitLoad /\ [][NextLoad]_vars

\* ====================================================================
\* hydrate_files_from_stack_dir (generate_content.py lines 124-160).  One
\* behaviour is one call.
\* ====================================================================
InitHydrate ==
    /\ OrchIdle
    /\ RepairIdle
    /\ ComposeIdle
    /\ ResolveIdle
    /\ GenIdle
    /\ InferIdle
    /\ MatchIdle
    /\ MergeIdle
    /\ LoadIdle
    /\ hy_pc = "called"
    /\ hy_tpl \in [files : TplFiles, editable_files : TplEditable]
    /\ hy_disk \in {[exists |-> FALSE, entries |-> <<>>]} \cup
                   {[exists |-> TRUE, entries |-> d] : d \in {x \in Disks(MaxDisk) : NoTwice(x)}}
    /\ hy_i = 0
    /\ hy_discovered = EmptyMap
    /\ hy_out = [files |-> NoneV, editable_files |-> NoneV]

\* lines 129-131: the directory of the template does not exist.
HydrateNoBase ==
    /\ hy_pc = "called"
    /\ ~hy_disk.exists
    /\ hy_out' = hy_tpl
    /\ hy_pc' = "returned"
    /\ UNCHANGED <<hy_tpl, hy_disk, hy_i, hy_discovered>>
    /\ UNCHANGED nonHydrateVars

\* lines 133-134: existing and discovered are set up.
HydrateStart ==
    /\ hy_pc = "called"
    /\ hy_disk.exists
    /\ hy_pc' = "scan"
    /\ UNCHANGED <<hy_tpl, hy_disk, hy_i, hy_discovered, hy_out>>
    /\ UNCHANGED nonHydrateVars

\* lines 143-148: a text file is read and recorded under sub/relative path.
HydrateRead ==
    /\ hy_pc = "scan"
    /\ hy_i < Len(Visited(hy_disk))
    /\ LET e == Visited(hy_disk)[hy_i + 1] IN
          /\ e.kind = "text"
          /\ hy_discovered' = Put(hy_discovered, e.rel, e.text)
    /\ hy_i' = hy_i + 1
    /\ UNCHANGED <<hy_pc, hy_tpl, hy_disk, hy_out>>
    /\ UNCHANGED nonHydrateVars

\* lines 141-142 and 145-146: a directory or an undecodable file is passed over.
HydrateSkip ==
    /\ hy_pc = "scan"
    /\ hy_i < Len(Visited(hy_disk))
    /\ Visited(hy_disk)[hy_i + 1].kind \in {"dir", "binary"}
    /\ hy_i' = hy_i + 1
    /\ UNCHANGED <<hy_pc, hy_tpl, hy_disk, hy_discovered, hy_out>>
    /\ UNCHANGED nonHydrateVars

\* lines 151-160: the merge, the default of editable_files, the return.
HydrateReturn ==
    /\ hy_pc = "scan"
    /\ hy_i = Len(Visited(hy_disk))
    /\ hy_out' = hydrated(hy_tpl, hy_discovered)
    /\ hy_pc' = "returned"
    /\ UNCHANGED <<hy_tpl, hy_disk, hy_i, hy_discovered>>
    /\ UNCHANGED nonHydrateVars

NextHydrate ==
    \/ HydrateNoBase
    \/ HydrateStart
    \/ HydrateRead
    \/ HydrateSkip
    \/ HydrateReturn

SpecHydrate == InitHydrate /\ [][NextHydrate]_vars

\* ====================================================================
\* Properties
\* ====================================================================
Terminal == pc \in {"done", "raised"}
InTest == pc \in {"install", "install_run", "attempt", "communicate"}
AllHealthy(meta) == \A i \in 1..Len(meta) : meta[i].healthy
AllZero(rs) == \A i \in 1..Len(rs) : rs[i].returncode = 0
LastOf(s) == s[Len(s)]

\* C1: in every emitted report, overall_passed is true exactly when every
\* declared service was recorded healthy and every result has returncode 0
\* (so healthy services and zero declared tests give overall_passed = true).
C1_OverallPassedIff ==
    report.emitted =>
        (report.overall_passed <=>
            /\ Len(report.services) = cfg.services
            /\ AllHealthy(report.services)
            /\ AllZero(report.results))

C1_Witness ==
    /\ report.emitted
    /\ cfg.services = 2
    /\ Len(report.results) = 2
    /\ report.results[1].returncode # 0
    /\ report.results[2].returncode = 0
    /\ ~report.overall_passed

\* C2: when main returns control (normally or by an exception), every service
\* process that was launched has been stopped.
C2_LaunchedServicesStopped ==
    Terminal => \A i \in 1..Len(procs) : ~procs[i].alive

\* C3: every run ends with a report emitted; no exception leaves main without one.
C3_AlwaysReports ==
    Terminal => report.emitted

\* C4: no install or test command runs unless every declared service was
\* launched and recorded healthy; a report with an unhealthy service has
\* overall_passed = false and no results.
C4_TestsOnlyAfterHealthy ==
    /\ (InTest \/ children # {} \/ results # <<>> \/ installs # <<>> \/ attempts.n > 0)
          => /\ Len(procs) = cfg.services
             /\ Len(svc_meta) = cfg.services
             /\ AllHealthy(svc_meta)
    /\ (report.emitted /\ ~AllHealthy(report.services))
          => ~report.overall_passed /\ report.results = <<>>

C4_Witness ==
    /\ report.emitted
    /\ Len(report.services) = 2
    /\ report.services[1].healthy
    /\ ~report.services[2].healthy
    /\ cfg.tests = 2

\* C5: once a service is recorded unhealthy, every service started so far has
\* been terminated in reverse start order, the survivors killed in reverse start
\* order, none is left alive, no later service is launched, and main is on its
\* way out with overall_passed = false.
C5_UnhealthyStopsAllInReverse ==
    (svc_meta # <<>> /\ ~LastOf(svc_meta).healthy) =>
        LET n == Len(svc_meta) IN
        /\ Len(procs) = n
        /\ \A i \in 1..n : ~procs[i].alive
        /\ stops # <<>>
        /\ stops[1].terminate = [i \in 1..n |-> n + 1 - i]
        /\ \A i \in 1..Len(stops[1].kill) :
              /\ stops[1].kill[i] \in 1..n
              /\ i > 1 => stops[1].kill[i] < stops[1].kill[i - 1]
        /\ pc \in {"finally", "report", "done"}
        /\ ~ok_services /\ ~overall_passed

C5_Witness ==
    /\ pc = "done"
    /\ cfg.services = 2
    /\ Len(svc_meta) = 2
    /\ svc_meta[1].healthy
    /\ ~svc_meta[2].healthy
    /\ stops[1].kill = <<2, 1>>

\* C6: at most one install or test process is alive, it belongs to the test
\* that follows the results recorded so far, and results are in declared order.
C6_TestsSequential ==
    /\ Cardinality(children) <= 1
    /\ \A c \in children : c.test = Len(results) + 1
    /\ ~InTest => children = {}
    /\ \A i \in 1..Len(results) : results[i].name = i
    /\ report.emitted => \A i \in 1..Len(report.results) : report.results[i].name = i

C6_Witness ==
    /\ Len(results) = 1
    /\ attempts.n > 0
    /\ attempts.rc = TIMEOUT_RC
    /\ \E c \in children : c.kind = "test" /\ c.test = 2 /\ c.n = 2

\* C7: when service startup succeeded, an emitted report holds exactly one result
\* per declared test, in declared order, whatever the earlier tests' outcomes.
C7_OneResultPerTest ==
    /\ (report.emitted /\ ok_services) =>
          /\ Len(report.results) = cfg.tests
          /\ \A i \in 1..cfg.tests : report.results[i].name = i
    /\ (ok_services /\ exc = "none" /\ pc \in {"finally", "report", "done"}) =>
          /\ Len(results) = cfg.tests
          /\ \A i \in 1..cfg.tests : results[i].name = i

C7_Witness ==
    /\ report.emitted
    /\ ok_services
    /\ cfg.tests = 2
    /\ report.results[1].error = "install-failed"
    /\ report.results[2].returncode = TIMEOUT_RC

\* C8: with retry budget r the test command runs at most r+1 times, again only
\* after a non-zero attempt, exactly r+1 times when every attempt fails; the
\* result carries the rc of the last attempt; each install command ran once,
\* before the first attempt.
C8_RetryBudget ==
    /\ attempts.n <= tcfg.retries + 1
    /\ (InTest /\ attempts.n > 0) => attempts.rc # 0
    /\ attempt = attempts.n + (IF pc = "communicate" THEN 1 ELSE 0)
    /\ (attempts.n > 0 \/ pc \in {"attempt", "communicate"}) =>
          /\ Len(installs) = tcfg.install
          /\ \A i \in 1..Len(installs) : installs[i].n = i /\ installs[i].rc = 0
    /\ (attempts.n > 0 /\ ~InTest) =>
          /\ results # <<>>
          /\ LastOf(results).returncode = attempts.rc
          /\ LastOf(results).error # "install-failed"
          /\ attempts.rc # 0 => attempts.n = tcfg.retries + 1

C8_Witness ==
    /\ pc = "returned"
    /\ tcfg.retries = 2
    /\ tcfg.install = 2
    /\ Len(installs) = 2
    /\ attempts.n = 3
    /\ attempts.rc # 0
    /\ LastOf(results).returncode = attempts.rc

\* C9: install commands run in declared order; at the first one that exits
\* non-zero the test ends with error "install-failed" and that rc, no later
\* install command and no attempt runs, and overall_passed is false.
C9_InstallFailureEndsTest ==
    /\ Len(installs) <= tcfg.install
    /\ \A i \in 1..Len(installs) : installs[i].n = i
    /\ \A i \in 1..(Len(installs) - 1) : installs[i].rc = 0
    /\ (installs # <<>> /\ LastOf(installs).rc # 0) =>
          /\ ~InTest
          /\ children = {}
          /\ attempts.n = 0 /\ attempt = 0
          /\ results # <<>>
          /\ LastOf(results).error = "install-failed"
          /\ LastOf(results).returncode = LastOf(installs).rc
    /\ \A i \in 1..Len(results) :
          results[i].error = "install-failed" =>
             /\ results[i].returncode # 0
             /\ ~all_ok /\ ~overall_passed
             /\ report.emitted => ~report.overall_passed

C9_Witness ==
    /\ pc = "returned"
    /\ tcfg.install = 2
    /\ tcfg.retries = 2
    /\ installs = <<[n |-> 1, rc |-> 1]>>
    /\ Len(results) = 2
    /\ results[1].returncode = 0

\* C10: an attempt that times out (timeout_sec > 0) is killed and recorded with
\* rc 124; it is retried while budget remains and, as the final attempt, makes
\* overall_passed false; with timeout_sec = 0 no attempt is killed for timing out.
C10_TimeoutSentinel ==
    /\ last_how = "timeout" =>
          /\ tcfg.timeout_sec > 0
          /\ attempts.rc = TIMEOUT_RC
          /\ [kind |-> "test", test |-> CurrentTest, n |-> attempts.n] \notin children
          /\ attempts.n <= tcfg.retries => pc \in {"attempt", "communicate"}
          /\ attempts.n > tcfg.retries =>
                /\ ~InTest
                /\ LastOf(results).returncode = TIMEOUT_RC
    /\ \A i \in 1..Len(results) :
          results[i].returncode = TIMEOUT_RC =>
             /\ ~all_ok /\ ~overall_passed
             /\ report.emitted => ~report.overall_passed
    /\ tcfg.timeout_sec = 0 =>
          /\ last_how # "timeout"
          /\ attempts.rc # TIMEOUT_RC

C10_Witness ==
    /\ pc = "returned"
    /\ last_how = "timeout"
    /\ tcfg.retries = 2
    /\ attempts = [n |-> 3, rc |-> TIMEOUT_RC]

\* C11: the verdict of a test, whether it is retried and overall_passed follow
\* the exit code of the final attempt alone: all_ok is "every recorded returncode
\* is zero" whatever the adapters met (failures counted in a summary, or a parse
\* error, with rc 0 pass; a clean summary with rc # 0 fails), an attempt is
\* retried exactly when its rc is non-zero and budget remains, and the result
\* keeps the rc of the final attempt.
C11_VerdictByExitCode ==
    /\ all_ok = AllZero(results)
    /\ pc \in {"finally", "report", "done"} /\ exc = "none" /\ ok_services =>
          overall_passed = AllZero(results)
    /\ report.emitted /\ ok_services => report.overall_passed = AllZero(report.results)
    /\ (pc \in {"attempt", "communicate"} /\ attempts.n > 0) => attempts.rc # 0
    /\ (pc = "returned" /\ attempts.n > 0) =>
          /\ LastOf(results).returncode = attempts.rc
          /\ attempts.rc # 0 => attempts.n = tcfg.retries + 1

C11_Witness ==
    /\ pc = "returned"
    /\ Len(results) = 2
    /\ results[1].error = "parse-error"
    /\ results[1].returncode = 0
    /\ last_parse = "failures"
    /\ attempts.rc = 0
    /\ all_ok

\* C12: a JUnit file or a Playwright output that cannot be parsed does not raise:
\* the test gets a result whose error is the parse error and whose returncode is
\* that of the attempt, results carry that error only when the adapter met it,
\* and the tests after it still get their results.
C12_ParseErrorIsAResult ==
    /\ last_parse = "parse-error" =>
          /\ pc = "returned"
          /\ exc = "none"
          /\ LastOf(results).error = "parse-error"
          /\ LastOf(results).returncode = attempts.rc
    /\ (pc = "returned" /\ LastOf(results).error = "parse-error") =>
          last_parse = "parse-error"
    /\ \A i \in 1..Len(results) :
          results[i].error = "parse-error" =>
             /\ pc \in {"finally", "report", "done"} /\ exc = "none" =>
                   Len(results) = cfg.tests
             /\ pc = "tests" => (Len(results) < cfg.tests \/ exc = "none")
             /\ report.emitted => report.results = results

C12_Witness ==
    /\ report.emitted
    /\ Len(report.results) = 2
    /\ report.results[1].error = "parse-error"
    /\ report.results[1].returncode = TIMEOUT_RC
    /\ report.results[2].error = "none"
    /\ report.results[2].returncode = 0

\* C13: the process exits 0 exactly when it emitted a report whose overall_passed
\* is true, and 1 otherwise; it has no exit code while it runs.
C13_ExitCodeFollowsVerdict ==
    /\ ~Terminal => exit_code = {}
    /\ pc = "done" =>
          /\ report.emitted
          /\ exit_code = {IF report.overall_passed THEN 0 ELSE 1}
    /\ pc = "raised" => exit_code = {1} /\ ~report.emitted

C13_Witness ==
    /\ exit_code = {0}
    /\ Len(report.services) = 2
    /\ Len(report.results) = 2

\* C14: when a run that has a report path configured ends, the file at that path,
\* read back, equals the report the run printed, field for field.
C14_FileEqualsStdout ==
    (pc = "done" /\ report_file.configured) =>
        /\ report_file.exists
        /\ json_loads(report_file.text) = ReportFields(report)

\* Number of events of a kind.
Count(evs, kinds) == Cardinality({i \in 1..Len(evs) : evs[i] \in kinds})

RepairEnded == rl_pc \in {"returned", "raised"}

\* The fix generator was called at most MAX_REPAIR_TRIES times and the
\* orchestrator run at most once more than that; a call that used up the budget
\* and was handed a failing report again is at its end and returns failure.
BudgetKept ==
    /\ Count(events, FixEvents) <= MAX_REPAIR_TRIES
    /\ Count(events, FixEvents) = tries - (IF rl_pc = "repair" THEN 1 ELSE 0)
    /\ Count(events, RunEvents) <= MAX_REPAIR_TRIES + 1
    /\ Count(events, RunEvents) <= Count(events, FixEvents) + 1
    /\ (Count(events, FixEvents) = MAX_REPAIR_TRIES
          /\ LastOf(events) \in RunEvents \ {"run:raise"} /\ ~rl_ok) =>
          /\ rl_pc \in {"loop", "exit", "returned"}
          /\ rl_pc = "returned" => ~rl_ret

\* C15: one call of the repair loop ends, after at most MAX_REPAIR_TRIES fix
\* cycles and MAX_REPAIR_TRIES + 1 orchestrator runs; with the budget used up and
\* the report handed to it still failing it returns failure.
C15_RepairTerminates == []BudgetKept /\ <>RepairEnded

C15_Witness ==
    /\ rl_pc = "returned"
    /\ ~rl_ret
    /\ tries = MAX_REPAIR_TRIES
    /\ events = <<"run:fail", "fix:changed", "run:fail", "fix:changed", "run:fail">>

\* The verdict of the last orchestrator run of the call.
LastRunPassed ==
    \E i \in 1..Len(events) :
        /\ events[i] = "run:pass"
        /\ \A j \in (i + 1)..Len(events) : events[j] \notin RunEvents

\* C16: a fix cycle comes only right after an orchestrator run that did not
\* pass; a passing first run returns success with no fix cycle and no rerun;
\* nothing follows a passing run; the value returned is the verdict of the last
\* orchestrator run of the call.
C16_FixOnlyAfterFailedRun ==
    /\ \A i \in 1..Len(events) :
          events[i] \in FixEvents => (i > 1 /\ events[i - 1] \in {"run:fail", "run:crash"})
    /\ \A i \in 1..(Len(events) - 1) : events[i] # "run:pass"
    /\ (events # <<>> /\ events[1] = "run:pass") =>
          rl_pc = "returned" /\ rl_ret /\ tries = 0
    /\ (events # <<>> /\ LastOf(events) = "run:pass") =>
          rl_pc \in {"loop", "exit", "returned"}
    /\ rl_pc = "returned" => rl_ret = LastRunPassed

\* C17: a fix cycle that writes no file (no JSON in the answer, an empty object,
\* only files outside the allowed subset) ends the loop: no rerun and no fix
\* cycle follows, and the call returns failure.
C17_NoChangeStops ==
    /\ \A i \in 1..Len(events) :
          events[i] = "fix:none" =>
             /\ i = Len(events)
             /\ rl_pc \in {"exit", "returned"}
             /\ ~rl_ok
             /\ rl_pc = "returned" => ~rl_ret
    /\ (events # <<>> /\ LastOf(events) \in FixEvents
          /\ (~llm.parsed \/ llm.files \cap subset(allowed_rel, target) = {})) =>
             LastOf(events) = "fix:none"

C17_Witness ==
    /\ rl_pc = "returned"
    /\ tries = 1
    /\ llm.parsed
    /\ llm.files = {<<"frontend", "index.html">>, <<"README.md">>}
    /\ allowed_rel = {<<"backend", "app.py">>, <<"frontend", "index.html">>}
    /\ target = "backend"
    /\ events = <<"run:fail", "fix:none">>

\* C18: a fix cycle writes only editable files, under backend/ when its target
\* is backend and under frontend/ when it is frontend; a file the generator
\* names outside that subset is not written.
C18_WritesOnlyAllowed ==
    /\ written \subseteq allowed_rel
    /\ touched \subseteq allowed_rel
    /\ (events # <<>> /\ LastOf(events) \in FixEvents) =>
          /\ written \subseteq llm.files
          /\ target = "backend" => \A rel \in written : StartsWith(rel, "backend")
          /\ target = "frontend" => \A rel \in written : StartsWith(rel, "frontend")
          /\ \A rel \in llm.files :
                (rel \notin allowed_rel \/ (target # "both" /\ ~StartsWith(rel, target)))
                   => rel \notin written

C18_Witness ==
    /\ events # <<>>
    /\ LastOf(events) = "fix:changed"
    /\ target = "backend"
    /\ allowed_rel = {<<"backend", "app.py">>, <<"frontend", "index.html">>}
    /\ llm.files = Paths
    /\ written = {<<"backend", "app.py">>}

\* C19: in a plan that _expand_project_paths returned, every service cwd, every
\* test cwd and the junit_xml of every junit test lie in content/code/{slug}/
\* once "." and ".." are resolved.
C19_PathsInsideProject ==
    cp_pc \in {"returned", "returned_again", "raised_again"} =>
        /\ \A i \in 1..Len(cp_out.services) :
              cp_out.services[i].cwd # Absent => Inside(cp_out.services[i].cwd)
        /\ \A i \in 1..Len(cp_out.tests) :
              LET t == cp_out.tests[i] IN
              /\ t.cwd # Absent => Inside(t.cwd)
              /\ (t.type = "junit" /\ t.junit_xml # Absent) => Inside(t.junit_xml)

\* C20: a plan is returned only if every service start, test cmd and install
\* command it was given is a list of strings.
C20_BadCommandIsFatal ==
    cp_pc \in {"returned", "returned_again", "raised_again"} =>
        /\ \A i \in 1..Len(cp_in.services) : IsListOfStr(cp_in.services[i].start)
        /\ \A i \in 1..Len(cp_in.tests) :
              LET t == cp_in.tests[i] IN
              /\ IsListOfStr(t.cmd)
              /\ t.install.py # "absent" =>
                    /\ t.install.py = "list"
                    /\ \A k \in 1..Len(t.install.cmds) : IsListOfStr(t.install.cmds[k])

\* ------------------------------------------------ template resolution
\* C21: the explicitly named template is used when the name is given and in the
\* registry; in every other case, an explicit name that is absent included, the
\* templates are scored against the topic and the best-scoring one is used;
\* a template is autogenerated only when none scores above zero.
C21_NamedElseBestMatch ==
    rs_how # "none" =>
        IF rs_name # NoName /\ rs_name \in scan_templates(storage0)
        THEN rs_how = "named" /\ rs_chosen = rs_name
        ELSE IF best_match_by_topic(storage0, rs_topic) # {NoName}
        THEN rs_how = "matched" /\ rs_chosen \in best_match_by_topic(storage0, rs_topic)
        ELSE rs_how \in {"autogen", "autogen-failed"}

\* C22: an autogenerated template is written to storage only after it parsed
\* as a mapping and passed the schema check; when parsing or the check fails
\* the call raises, returns no template and leaves storage as it was.
C22_SavedOnlyWhenValid ==
    /\ storage # storage0 =>
          /\ rs_how = "autogen"
          /\ rs_tpl.mapping
          /\ ~validate_template_raises(rs_tpl)
    /\ rs_how = "autogen-failed" =>
          /\ rs_pc = "raised"
          /\ rs_ret = NoTemplate
          /\ storage = storage0

C22_Witness ==
    /\ rs_how = "autogen-failed"
    /\ rs_pc = "raised"
    /\ storage0["flask"] # NoEntry
    /\ storage = storage0

\* A command that is a non-empty list of strings.
NonEmptyCommand(c) == c.py = "list" /\ c.items # <<>> /\ \A i \in 1..Len(c.items) : c.items[i] = "str"

\* services and tests are lists, each service has name, cwd and a non-empty
\* start command, each test has name, type, cwd and a non-empty cmd.
WellFormed(tpl) ==
    /\ tpl.mapping
    /\ tpl.services.py = "list"
    /\ tpl.tests.py = "list"
    /\ \A i \in 1..Len(tpl.services.items) :
          /\ ServiceKeys \subseteq tpl.services.items[i].keys
          /\ NonEmptyCommand(tpl.services.items[i].start)
    /\ \A i \in 1..Len(tpl.tests.items) :
          /\ TestKeys \subseteq tpl.tests.items[i].keys
          /\ NonEmptyCommand(tpl.tests.items[i].cmd)

\* C23: every template returned by template resolution is well formed (lists
\* of services and tests, every required field present, every start command
\* and cmd non-empty); any other template is rejected with an error.
C23_ReturnedTemplateWellFormed ==
    rs_pc = "returned" => WellFormed(rs_ret)

\* C30: template resolution never modifies or replaces the entry file of a
\* template that exists in storage when the call begins.
C30_ExistingTemplatesUnchanged ==
    \A n \in StackNames : storage0[n] # NoEntry => storage[n] = storage0[n]

\* ----------------------------------------------------- generator main
Called(f) == \E i \in 1..Len(gm_calls) : gm_calls[i] = f

\* C24: with --dry-run, main makes no customization call and never enters the
\* repair loop, and in the modes that scaffold it has scaffolded and run the
\* tests when it ends.
C24_DryRunSkipsLlmSteps ==
    gm_args.dry_run =>
        /\ ~Called("llm_customize_in_place")
        /\ ~Called("repair_loop_if_needed")
        /\ Scaffolds(gm_args) /\ gm_pc \in {"returned", "exited"} =>
              Called("compose_stack") /\ Called("run_tests_with_config")

\* -------------------------------------------------- report hand-over
\* C25: the report run_tests_with_config hands to the repair loop is the one
\* the orchestrator run just made produced: its verdict when the run reported,
\* no report when the run crashed.
C25_HandedReportIsThisRuns ==
    (events # <<>> /\ LastOf(events) \in {"run:pass", "run:fail", "run:crash"}) =>
        rl_report = CASE LastOf(events) = "run:pass" ->
                           [kind |-> "report", overall_passed |-> TRUE]
                      [] LastOf(events) = "run:fail" ->
                           [kind |-> "report", overall_passed |-> FALSE]
                      [] OTHER -> ReportHead(ErrorReport)

\* ------------------------------------------------------ service start
\* C26: services are launched and healthchecked one at a time in declared
\* order: at most the last launched service has no health outcome yet, the
\* outcomes are recorded in launch order and every one but the last is
\* healthy; report.services lists exactly the launched services in that order.
C26_ServicesOneAtATime ==
    /\ Len(procs) - Len(svc_meta) \in {0, 1}
    /\ Len(procs) > Len(svc_meta) => pc \in {"wait_http", "grace", "raised"}
    /\ \A i \in 1..Len(svc_meta) : svc_meta[i].name = procs[i].name
    /\ \A i \in 1..Len(procs) : procs[i].name = i
    /\ \A i \in 1..(Len(svc_meta) - 1) : svc_meta[i].healthy
    /\ report.emitted =>
          /\ Len(report.services) = Len(procs)
          /\ \A i \in 1..Len(procs) : report.services[i].name = procs[i].name
          /\ \A i \in 1..(Len(procs) - 1) : report.services[i].healthy

C26_Witness ==
    /\ report.emitted
    /\ Len(report.services) = 2
    /\ ~report.services[2].healthy

\* C27: polling a service with a healthcheck URL ends by recording the service
\* healthy or unhealthy; a transport error leads to another poll.
C27_PollingDecidesHealth ==
    Len(procs) > Len(svc_meta) => pc \in {"wait_http", "grace"}

\* ------------------------------------------------- infer_failure_target
\* The result implicates the side, by the words in its type and its name.
Implicates(r, side) ==
    IF side = "backend"
    THEN WordsIn(r.type) \cap {"junit", "pytest"} # {} \/ "backend" \in WordsIn(r.name)
    ELSE "playwright" \in WordsIn(r.type) \/ WordsIn(r.name) \cap {"ui", "frontend"} # {}

FailedResults(rep) == {i \in 1..Len(rep.results) : rep.results[i].returncode # 0}

\* C28: the target depends only on the results with non-zero returncode: it
\* is backend when only backend is implicated, frontend when only frontend is,
\* both when both sides or neither side is.
C28_TargetByFailedResults ==
    if_pc = "returned" =>
        LET be == \E i \in FailedResults(if_report) : Implicates(if_report.results[i], "backend")
            fe == \E i \in FailedResults(if_report) : Implicates(if_report.results[i], "frontend")
        IN  if_target = IF be /\ ~fe THEN "backend"
                        ELSE IF fe /\ ~be THEN "frontend"
                        ELSE "both"

C28_Witness ==
    /\ if_pc = "returned"
    /\ if_target = "backend"
    /\ \E i \in 1..Len(if_report.results) :
          /\ if_report.results[i].returncode = 0
          /\ Implicates(if_report.results[i], "frontend")

\* ----------------------------------------------------- junit summary
\* C29: the summary of a junit result describes the final attempt: when that
\* attempt wrote no JUnit XML file and the adapter read a file left at
\* junit_xml by an earlier attempt or run, the result carries a parse error.
C29_SummaryIsOfFinalAttempt ==
    (pc = "returned" /\ last_parse = "stale") => LastOf(results).error = "parse-error"

\* ------------------------------------------------ plan composition, again
\* SamePaths(p, q): the two plans have the same cwd and junit_xml paths.
SamePaths(p, q) ==
    /\ Len(p.services) = Len(q.services)
    /\ Len(p.tests) = Len(q.tests)
    /\ \A i \in 1..Len(p.services) : p.services[i].cwd = q.services[i].cwd
    /\ \A i \in 1..Len(p.tests) :
          /\ p.tests[i].cwd = q.tests[i].cwd
          /\ p.tests[i].junit_xml = q.tests[i].junit_xml

\* C31: _expand_project_paths, applied with the same slug to a plan that it
\* returned, returns again, and with the same cwd and junit_xml paths.
C31_ExpandIdempotent ==
    /\ cp_pc # "raised_again"
    /\ cp_pc = "returned_again" => SamePaths(cp_again, cp_out)

\* ------------------------------------------------ services, grace period
\* C36: when the grace sleep of a service without healthcheck url ends, the
\* service is recorded healthy whatever its process did (wrote nothing, or
\* exited), and start_services goes on to its next service or returns to main.
C36_GraceAlwaysHealthy ==
    proc_did # "none" =>
        /\ pc = "start_services"
        /\ svc_meta # <<>>
        /\ LastOf(svc_meta).healthy
        /\ Len(svc_meta) = Len(procs)

\* A service whose process exited during the grace sleep was recorded healthy.
C36_Witness ==
    /\ proc_did = "exited"
    /\ pc = "start_services"
    /\ LastOf(svc_meta).healthy
    /\ Len(svc_meta) = cfg.services

\* ------------------------------------------------ services, none declared
\* C37: with a plan of zero services no healthcheck is awaited and nothing is
\* launched, startup succeeds, and an emitted report has no services, one
\* result per declared test and overall_passed true exactly when every result
\* has returncode 0.
C37_NoServicesIsSuccess ==
    cfg.services = 0 =>
        /\ pc \notin {"wait_http", "grace"}
        /\ svc_meta = <<>>
        /\ procs = <<>>
        /\ pc # "start_services" => ok_services
        /\ report.emitted =>
              /\ report.services = <<>>
              /\ Len(report.results) = cfg.tests
              /\ report.overall_passed <=> AllZero(report.results)

\* A report of a plan with no service and two tests, the second of which failed.
C37_Witness ==
    /\ cfg.services = 0
    /\ report.emitted
    /\ Len(report.results) = 2
    /\ report.results[1].returncode = 0
    /\ report.results[2].returncode # 0
    /\ ~report.overall_passed

\* ------------------------------------------------ keyword matching
\* How many str items of the detect list occur in the topic, letter case aside.
KeywordCount(detect, topic) ==
    Cardinality({i \in 1..Len(detect) :
                   /\ detect[i].py = "str"
                   /\ \E w \in 1..Len(topic) : Lower(detect[i].text) = Lower(topic[w])})

\* C38: best_match_by_topic returns the first template, in registry order, of
\* those whose keyword count is the highest, and None when every count is zero.
C38_BestMatchFirstOfHighest ==
    bm_pc = "returned" =>
        LET count(i) == KeywordCount(bm_reg[i].detect, bm_topic)
            top(i) == \A j \in 1..Len(bm_reg) : count(j) <= count(i)
        IN  IF \A i \in 1..Len(bm_reg) : count(i) = 0
            THEN bm_best = NoName
            ELSE \E i \in 1..Len(bm_reg) :
                    /\ top(i)
                    /\ \A j \in 1..(i - 1) : ~top(j)
                    /\ bm_best = bm_reg[i].name

\* Two templates with the same count above zero, one keyword written with a
\* capital: the first of the two was returned.
C38_Witness ==
    /\ bm_pc = "returned"
    /\ Len(bm_reg) = 2
    /\ bm_reg[1].detect = <<KW_FLASK_CAP>>
    /\ bm_reg[2].detect = <<KW_FLASK>>
    /\ bm_topic = <<"flask", "REACT">>
    /\ bm_best = bm_reg[1].name

\* ------------------------------------------------ deep_merge
\* C39: deep_merge(a, b) of two dicts is a dict with the keys of both, whose
\* value at a key k of b is deep_merge(a.get(k), b[k]) and at a key only in a
\* is a[k]; when a or b is no dict the result is b; deep_merge(a, a) = a.
C39_DeepMergeAlgebra ==
    dm_pc = "returned" =>
        /\ IF dm_a.t = "map" /\ dm_b.t = "map"
           THEN /\ dm_out.t = "map"
                /\ KeysOf(dm_out) = KeysOf(dm_a) \cup KeysOf(dm_b)
                /\ Len(dm_out.items) = Cardinality(KeysOf(dm_out))
                /\ \A k \in KeysOf(dm_b) :
                      Get(dm_out, k) = deep_merge(Get(dm_a, k), Get(dm_b, k))
                /\ \A k \in KeysOf(dm_a) \ KeysOf(dm_b) : Get(dm_out, k) = Get(dm_a, k)
           ELSE dm_out = dm_b
        /\ dm_a = dm_b => dm_out = dm_a

\* Two dicts that share the key env, itself a dict in both, were merged: env
\* has the keys of both and the value of b where both define one.
C39_Witness ==
    /\ dm_pc = "returned"
    /\ dm_a = MapV(<<KV("env", MapV(<<KV("mode", StrV(<<"dev">>)), KV("debug", BoolV(TRUE))>>)),
                     KV("port", IntV("1"))>>)
    /\ dm_b = MapV(<<KV("env", MapV(<<KV("mode", StrV(<<"test">>))>>))>>)
    /\ dm_out = MapV(<<KV("env", MapV(<<KV("mode", StrV(<<"test">>)),
                                        KV("debug", BoolV(TRUE))>>)),
                       KV("port", IntV("1"))>>)

\* ------------------------------------------------ plan loading
\* The templates of extends that define key k, by position.
Defining(k) == {i \in 1..Len(ld_extends) : Has(ld_extends[i], k)}
LastOfSet(S) == CHOOSE i \in S : \A j \in S : j <= i

\* The templates whose dict at k is merged into the final one: those that
\* define k and come after the last template that defines k as no dict.
MergedRun(k) ==
    {i \in Defining(k) :
        \A j \in Defining(k) : Get(ld_extends[j], k).t # "map" => j < i}

\* C34: after the extends loop, a key that no template defines is absent; a
\* key whose last definition is a scalar or a list (services, tests) holds
\* exactly that value, never more; a key whose last definition is a dict holds
\* the dicts merged key by key, the last template that defines an inner key
\* giving its value.
C34_ExtendMergeLastWins ==
    ld_pc \notin {"idle", "extend"} =>
        \A k \in {"services", "tests", "vars", "env", "report"} :
            IF Defining(k) = {} THEN ~Has(ld_extended, k)
            ELSE LET v == Get(ld_extends[LastOfSet(Defining(k))], k) IN
                 IF v.t # "map" THEN Get(ld_extended, k) = v
                 ELSE /\ Get(ld_extended, k).t = "map"
                      /\ KeysOf(Get(ld_extended, k)) =
                            UNION {KeysOf(Get(ld_extends[i], k)) : i \in MergedRun(k)}
                      /\ \A j \in KeysOf(Get(ld_extended, k)) :
                            LET src == LastOfSet({i \in MergedRun(k) :
                                                    Has(Get(ld_extends[i], k), j)})
                            IN  Get(Get(ld_extended, k), j) = Get(Get(ld_extends[src], k), j)

\* Two templates that both declare services, tests and the dict env: the
\* lists are those of the second, env has the keys of both.
C34_Witness ==
    /\ ld_pc = "vars"
    /\ ld_extends = <<T_FLASK, T_REACT>>
    /\ Get(ld_extended, "services") = ListV(<<SVC_FRONTEND>>)
    /\ Get(ld_extended, "tests") = ListV(<<TEST_UI>>)
    /\ Get(ld_extended, "env") =
          MapV(<<KV("MODE", StrV(<<"${PORT}">>)), KV("DEBUG", BoolV(TRUE))>>)

\* proj_cfg["overrides"].
Overrides == GetOr(ld_proj, "overrides", EmptyMap)

\* An entry with the patch of its name merged into it, when there is one.
PatchedByName(e, patches) ==
    IF /\ e.t = "map"
       /\ Get(e, "name").t = "str"
       /\ Len(Get(e, "name").s) = 1
       /\ Has(patches, Get(e, "name").s[1])
    THEN deep_merge(e, Get(patches, Get(e, "name").s[1]))
    ELSE e

\* The list at key that the named-list merge is to give: the entries of the
\* list before the overrides, in their order, each with the patch of its name;
\* then, for tests, the add_tests entries in their order; the disabled left out.
MergedByName(key) ==
    LET base == ValuesOf(Get(ld_extended, key))
        patches == GetOr(Overrides, key, EmptyMap)
        added == IF key = "tests" THEN ValuesOf(Get(Overrides, "add_tests")) ELSE <<>>
        all == [i \in 1..Len(base) |-> PatchedByName(base[i], patches)] \o added
    IN  SelectSeq(all, LAMBDA x : ~Truthy(Get(x, "disabled")))

\* C33: after the overrides, services and tests are the lists merged by name
\* (patches merged into the entries of their name, unmatched patches without
\* effect, add_tests appended in order, no disabled entry left), and with
\* overrides.services.backend.disabled true no service is named backend.
C33_NamedListMerge ==
    ld_unresolved # NoneV =>
        /\ \A key \in {"services", "tests"} :
              ValuesOf(Get(ld_unresolved, key)) = MergedByName(key)
        /\ Truthy(Get(Get(Get(Overrides, "services"), "backend"), "disabled")) =>
              \A i \in 1..Len(Get(ld_unresolved, "services").items) :
                  Get(Get(ld_unresolved, "services").items[i].v, "name") # StrV(<<"backend">>)

\* The variables of the merged templates and of the project.
TemplateVars == GetOr(ld_extended, "vars", EmptyMap)
ProjectVars == GetOr(ld_proj, "vars", EmptyMap)

\* What a piece of text is to become: a token of a reserved name the slug, of
\* a name of the project's or else the templates' vars its value there, of a
\* name of the environment its value there, anything else itself.
ResolvedPiece(c) ==
    IF c \notin Tokens THEN <<c>>
    ELSE IF NameIn(c) \in {"__PROJECT__", "SLUG"} THEN Slug.s
    ELSE IF Has(ProjectVars, NameIn(c)) THEN py_str(Get(ProjectVars, NameIn(c)))
    ELSE IF Has(TemplateVars, NameIn(c)) THEN py_str(Get(TemplateVars, NameIn(c)))
    ELSE IF Has(ld_env, NameIn(c)) THEN Get(ld_env, NameIn(c)).s
    ELSE <<c>>

RECURSIVE ResolvedText(_)
ResolvedText(text) ==
    IF text = <<>> THEN <<>> ELSE ResolvedPiece(Head(text)) \o ResolvedText(Tail(text))

\* after is before with every str resolved, and nothing else changed.
RECURSIVE IsResolved(_, _)
IsResolved(before, after) ==
    CASE before.t \in {"map", "list"} ->
           /\ after.t = before.t
           /\ Len(after.items) = Len(before.items)
           /\ \A i \in 1..Len(before.items) :
                 /\ after.items[i].k = before.items[i].k
                 /\ IsResolved(before.items[i].v, after.items[i].v)
      [] before.t = "str" ->
           /\ after.t = "str"
           /\ after.s = ResolvedText(before.s)
           /\ (\A i \in 1..Len(before.s) : before.s[i] \notin Tokens) => after = before
      [] OTHER -> after = before

\* C35: the plan after variable resolution is the plan before it with every
\* ${NAME} token of every str replaced by the slug for the reserved names, by
\* the value in the combined vars, else by the value in the environment, else
\* left as it is; a str without token is unchanged.
C35_TokensResolved ==
    ld_pc = "expand" => IsResolved(ld_unresolved, ld_merged)

\* One plan in which a token was resolved from the environment (PORT), one
\* from the templates' vars although the environment defines DIR too, one from
\* the project's vars although the environment defines HOME too, one from the
\* slug although the project defines SLUG, and one was left (UNSET).
C35_Witness ==
    /\ ld_pc = "expand"
    /\ ld_extends = <<T_FLASK, T_TWO>>
    /\ Has(ld_env, "DIR") /\ Has(ld_env, "HOME")
    /\ Get(ProjectVars, "SLUG") = StrV(<<"evil">>)
    /\ Len(Get(ld_merged, "tests").items) = 3
    /\ Get(Get(ld_merged, "tests").items[1].v, "cwd") = StrV(<<"backend">>)
    /\ Get(Get(ld_unresolved, "tests").items[1].v, "cwd") = StrV(<<"${HOME}">>)
    /\ Get(Get(ld_merged, "tests").items[2].v, "cwd") = StrV(<<"backend">>)
    /\ Get(Get(ld_merged, "tests").items[2].v, "port") = StrV(<<"80">>)
    /\ Get(Get(ld_merged, "tests").items[3].v, "cwd") = StrV(<<"backend", "p">>)
    /\ Get(Get(ld_merged, "tests").items[3].v, "label") = StrV(<<"${UNSET}">>)

\* The pieces of every str in a value.
RECURSIVE PiecesIn(_)
PiecesIn(v) ==
    IF v.t = "str" THEN {v.s[i] : i \in 1..Len(v.s)}
    ELSE UNION {PiecesIn(v.items[i].v) : i \in 1..Len(v.items)}

\* The name of the token is defined: reserved, in the vars, or in the environment.
Defined(tok) ==
    \/ NameIn(tok) \in {"__PROJECT__", "SLUG"}
    \/ Has(ProjectVars, NameIn(tok))
    \/ Has(TemplateVars, NameIn(tok))
    \/ Has(ld_env, NameIn(tok))

\* The services and tests of a plan that have a cwd, as <<key, position>>.
WithCwd(plan) ==
    {<<key, i>> \in {"services", "tests"} \X (1..3) :
        /\ i <= Len(Get(plan, key).items)
        /\ Has(Get(plan, key).items[i].v, "cwd")}

\* The cwd of such an entry, and the cwd that its text stands for once the
\* variables have their values.
CwdOf(plan, e) == Get(Get(plan, e[1]).items[e[2]].v, "cwd").s
Substituted(e) == StripDotSlash(ResolvedText(CwdOf(ld_unresolved, e)))

\* The sandbox rule: the cwd is backend, frontend, or below one of them.
Sandboxed(cwd) == UnderRoot(cwd, "backend") \/ UnderRoot(cwd, "frontend")

\* C32: the stages run in the order overrides, variable resolution, path
\* sandboxing.  A returned plan holds no token of a defined name, whichever
\* stage introduced it, and each of its cwd is content/code/{slug}/ followed by
\* the cwd with its variables replaced, which satisfies the sandbox rule; the
\* call raises ValueError exactly for a cwd that fails the rule once its
\* variables are replaced.
C32_ResolveBeforeSandbox ==
    /\ ld_pc = "returned" =>
          /\ \A tok \in PiecesIn(ld_merged) \cap Tokens : ~Defined(tok)
          /\ WithCwd(ld_merged) = WithCwd(ld_unresolved)
          /\ \A e \in WithCwd(ld_unresolved) :
                /\ Sandboxed(Substituted(e))
                /\ CwdOf(ld_merged, e) = ProjectDir \o Substituted(e)
    /\ (ld_pc = "raised" /\ ld_exc = "ValueError") =>
          \E e \in WithCwd(ld_unresolved) : ~Sandboxed(Substituted(e))

\* A returned plan whose service cwd an override wrote as ${DIR}/api and whose
\* appended test has the cwd ${DIR}, with DIR = backend.
C32_Witness ==
    /\ ld_pc = "returned"
    /\ <<"services", 1>> \in WithCwd(ld_unresolved)
    /\ CwdOf(ld_unresolved, <<"services", 1>>) = <<"${DIR}", "api">>
    /\ CwdOf(ld_merged, <<"services", 1>>) = <<"content", "code", "p", "backend", "api">>
    /\ \E i \in 1..3 :
          /\ <<"tests", i>> \in WithCwd(ld_unresolved)
          /\ Get(Get(ld_unresolved, "tests").items[i].v, "name") = StrV(<<"extra">>)
          /\ CwdOf(ld_unresolved, <<"tests", i>>) = <<"${DIR}">>
          /\ CwdOf(ld_merged, <<"tests", i>>) = <<"content", "code", "p", "backend">>

\* tpl["files"] before the call, as the dict the function starts from.
FilesBefore == IF hy_tpl.files.t = "map" THEN hy_tpl.files ELSE EmptyMap

\* C40: hydration is additive only.  After the call every key that files had
\* before maps to the same content as before, and every other key of files is
\* a text file found below backend/ or frontend/, with the content on disk.
C40_HydrateAdditiveOnly ==
    hy_pc = "returned" =>
        /\ \A k \in KeysOf(FilesBefore) :
              /\ Has(hy_out.files, k)
              /\ Get(hy_out.files, k) = Get(FilesBefore, k)
        /\ \A k \in KeysOf(hy_out.files) \ KeysOf(FilesBefore) :
              \E i \in 1..Len(hy_disk.entries) :
                  /\ hy_disk.entries[i].rel = k
                  /\ hy_disk.entries[i].sub \in {"backend", "frontend"}
                  /\ hy_disk.entries[i].kind = "text"
                  /\ Get(hy_out.files, k) = hy_disk.entries[i].text

\* The template lists backend/app.py; the directory holds another backend/app.py
\* and frontend/index.html: the listed content is kept, the new file is added.
C40_Witness ==
    /\ hy_pc = "returned"
    /\ Get(hy_tpl.files, "backend/app.py") = StrV(<<"yaml app">>)
    /\ Get(hy_discovered, "backend/app.py") = StrV(<<"disk app">>)
    /\ Get(hy_discovered, "frontend/index.html") = StrV(<<"disk index">>)
    /\ Get(hy_out.files, "backend/app.py") = StrV(<<"yaml app">>)
    /\ Get(hy_out.files, "frontend/index.html") = StrV(<<"disk index">>)

====
